---- MODULE Spec2Model ----
(***************************************************************************)
(* Model of the unified-diff extractor / renderer of                       *)
(* packages/web/src/lib/diffParser.ts (parseDiffForFile and                *)
(* parseDiffWithColors).                                                   *)
(*                                                                         *)
(* Text.  A JavaScript string is modelled as a sequence of tokens.  A      *)
(* token is either one punctuation character (" ", "\n", "-", "+", "@",   *)
(* "/", ".", "(") or a maximal run of letters (a word).  The words of the  *)
(* inputs are chosen so that no word is a proper prefix or suffix of a     *)
(* word that begins or ends one of the literals the code searches for, so  *)
(* that a literal occurs in the characters exactly where its tokens occur  *)
(* in the token sequence: startsWith, includes, split and the two regular  *)
(* expressions are computed on tokens as the code computes them on         *)
(* characters.  Texts the code only produces (placeholders, the banner     *)
(* words) are single opaque tokens.                                        *)
(***************************************************************************)
EXTENDS Integers, Sequences, FiniteSets, TLC

VARIABLES
    fullDiff,       \* argument of both functions
    filePath,       \* argument of both functions
    pc,             \* position inside parseDiffWithColors: start, loop, done
    fileDiff,       \* fileDiffMatch[0]; the empty text before or without a match
    lines,          \* fileDiff.split('\n')
    idx,            \* position of the for..of loop in lines (1-based)
    contentLines,   \* the display buffer
    decorations,    \* the decoration list
    lineNumber,     \* the running line counter
    inHunk,         \* the inHunk flag
    colors,         \* return value of parseDiffWithColors, Pending before
    forFile,        \* return value of parseDiffForFile, Pending before
    callLog         \* the calls of parseDiffWithColors that have returned, in order

\* parseDiffHunk (lib/utils.ts); its strings are sequences of characters
VARIABLES
    diffHunk,       \* argument of parseDiffHunk
    hunkShape,      \* the pieces the argument was written from
    hunkResult      \* return value of parseDiffHunk, Pending before

\* the validators (server/src/utils/validation.ts) and the handler of
\* POST /api/open-in-editor; their strings are sequences of characters
VARIABLES
    prValue,        \* argument of validatePRNumber
    prShape,        \* the pieces a string argument was written from
    prResult,       \* what validatePRNumber returned or threw, Pending before
    reqBody,        \* req.body of the request: filePath and line
    pathResult,     \* what validateFilePath(reqBody.filePath) returned or threw
    editorPc,       \* position of the handler: start, root, exec, sent
    command,        \* the command handed to the shell, Null while there is none
    response        \* the response sent, Pending before

\* the OpenCode manager (server/src/services/opencode.ts)
VARIABLES
    serverProcess,  \* the tracked child, as its number in children; NoChild for null
    serverUrl,      \* the port the URL names; NoPort for null
    serverPort,     \* NoPort for null
    children,       \* the child processes spawned so far, in order
    tasks           \* the calls of startServer and cleanup made so far, in order

\* the UI store (web/src/context/AppContext.tsx) and its requests (web/src/lib/api.ts)
VARIABLES
    state,                      \* the reducer's state: currentPR, currentDiff, currentComments, loading, error
    prDetailAbortController,    \* the ref's current controller, as the number of its call in selects; NoCall for null
    selects                     \* the calls of selectPR made so far, in order, each with its signal and three requests

\* the comment ranges of the diff view (web/src/components/diff/MonacoDiff.tsx);
\* the argument of parseDiffHunk is diffHunk of a comment
VARIABLES
    fileComments,        \* the comments on the selected file, each with the pieces its diffHunk was written from
    targetLine,          \* the line to scroll to, null when there is none
    commentLineRanges,   \* the memoized ranges, one per comment; Pending before
    glyphDecorations,    \* the glyph decorations handed to the editor; Pending before
    highlight            \* the range of the flash highlight; Pending before

\* one call of fetchWithRetry (web/src/lib/api.ts)
VARIABLES
    retry,         \* where the call is: a Request
    retrySignal,   \* the AbortSignal handed to fetchAPI: "none", "live" or "aborted"
    fnCalls,       \* how often fn, and with it fetch, has been called
    answers,       \* what each settled call of fn came to
    waits          \* the delays slept, in order

\* the TTL cache (server/src/services/cache.ts) and the requests of the
\* pull request routes that use it (server/src/routes/prs.ts)
VARIABLES
    cacheStore,   \* Cache.store: the entries by key
    now,          \* Date.now(), in ms
    ticks,        \* how often the clock has advanced
    lastSet,      \* by key, the most recent set not followed by delete or clear; Null when none
    got,          \* the key and the result of get, when the last operation was a get; Pending otherwise
    requests      \* the requests GET /api/prs/:number... received

\* the chat sessions (server/src/routes/chat.ts)
VARIABLES
    activeSessions,   \* the ids the Map activeSessions holds
    messageCount,     \* by session id, messageCount of the session object
    nextSessionId,    \* the id the SDK gives the next session it creates
    chatRequests      \* the requests received, each with where its handler is

diffVars == <<fullDiff, filePath, pc, fileDiff, lines, idx, contentLines,
              decorations, lineNumber, inHunk, colors, forFile, callLog>>
hunkVars == <<diffHunk, hunkShape, hunkResult>>
validationVars == <<prValue, prShape, prResult, reqBody, pathResult, editorPc, command, response>>
opencodeVars == <<serverProcess, serverUrl, serverPort, children, tasks>>
storeVars == <<state, prDetailAbortController, selects>>
commentVars == <<fileComments, targetLine, commentLineRanges, glyphDecorations, highlight>>
retryVars == <<retry, retrySignal, fnCalls, answers, waits>>
cacheVars == <<cacheStore, now, ticks, lastSet, got, requests>>
chatVars == <<activeSessions, messageCount, nextSessionId, chatRequests>>

\* all variables but those of one part
nonHunkVars == <<diffVars, validationVars, opencodeVars, storeVars, commentVars, retryVars, cacheVars, chatVars>>
nonValidationVars == <<diffVars, hunkVars, opencodeVars, storeVars, commentVars, retryVars, cacheVars, chatVars>>
nonOpencodeVars == <<diffVars, hunkVars, validationVars, storeVars, commentVars, retryVars, cacheVars, chatVars>>
nonStoreVars == <<diffVars, hunkVars, validationVars, opencodeVars, commentVars, retryVars, cacheVars, chatVars>>
nonCommentVars == <<diffVars, hunkVars, validationVars, opencodeVars, storeVars, retryVars, cacheVars, chatVars>>
nonRetryVars == <<diffVars, hunkVars, validationVars, opencodeVars, storeVars, commentVars, cacheVars, chatVars>>
nonCacheVars == <<diffVars, hunkVars, validationVars, opencodeVars, storeVars, commentVars, retryVars, chatVars>>
nonChatVars == <<diffVars, hunkVars, validationVars, opencodeVars, storeVars, commentVars, retryVars, cacheVars>>
outerVars == <<hunkVars, validationVars, opencodeVars, storeVars, commentVars, retryVars, cacheVars, chatVars>>

\* the variables that a call of the diff extractor / renderer leaves alone
nonDiffVars == <<outerVars, callLog>>

vars == <<diffVars, hunkVars, validationVars, opencodeVars, storeVars, commentVars, retryVars, cacheVars, chatVars>>

\* null, and the value of a result variable before its function has returned
Null == [kind |-> "null"]
Pending == [kind |-> "pending"]

\* longest input, in lines
MaxLines == 4

\* the variables of a part of the program that a specification leaves out
HunkIdle == diffHunk = <<>> /\ hunkShape = Null /\ hunkResult = Pending

\* the values of JavaScript the validators are handed
JSUndefined == [t |-> "undefined"]
JSNull == [t |-> "null"]
JSNumber(n) == [t |-> "number", n |-> n]
JSString(s) == [t |-> "string", s |-> s]

ValidationIdle ==
    /\ prValue = JSUndefined
    /\ prShape = Null
    /\ prResult = Pending
    /\ reqBody = [filePath |-> JSUndefined, line |-> JSUndefined]
    /\ pathResult = Pending
    /\ editorPc = "start"
    /\ command = Null
    /\ response = Pending

\* null of the manager's fields
NoChild == 0
NoPort == 0

OpencodeIdle ==
    /\ serverProcess = NoChild
    /\ serverUrl = NoPort
    /\ serverPort = NoPort
    /\ children = <<>>
    /\ tasks = <<>>

\* null of the controller ref
NoCall == 0

\* the empty array of comments
EmptyList == [kind |-> "list"]

StoreIdle ==
    /\ state = [currentPR |-> Null, currentDiff |-> Null, currentComments |-> EmptyList,
                loading |-> FALSE, error |-> Null]
    /\ prDetailAbortController = NoCall
    /\ selects = <<>>

CommentIdle ==
    /\ fileComments = <<>>
    /\ targetLine = JSNull
    /\ commentLineRanges = Pending
    /\ glyphDecorations = Pending
    /\ highlight = Pending

RetryIdle ==
    /\ retry = Pending
    /\ retrySignal = "none"
    /\ fnCalls = 0
    /\ answers = <<>>
    /\ waits = <<>>

CacheIdle ==
    /\ cacheStore = <<>>
    /\ now = 0
    /\ ticks = 0
    /\ lastSet = <<>>
    /\ got = Pending
    /\ requests = <<>>

ChatIdle ==
    /\ activeSessions = {}
    /\ messageCount = <<>>
    /\ nextSessionId = 1
    /\ chatRequests = <<>>

NonDiffIdle == HunkIdle /\ ValidationIdle /\ OpencodeIdle /\ StoreIdle /\ CommentIdle /\ RetryIdle /\ CacheIdle /\ ChatIdle /\ callLog = <<>>

(***************************************************************************)
(* String primitives                                                       *)
(***************************************************************************)
Min(S) == CHOOSE x \in S : \A y \in S : x <= y

\* s.substring(from - 1): the tokens of s from position `from` on
substring(s, from) == SubSeq(s, from, Len(s))

\* the literal lit occurs in s at position i
OccursAt(s, i, lit) ==
    /\ i >= 1
    /\ i + Len(lit) - 1 <= Len(s)
    /\ \A k \in 1..Len(lit) : s[i + k - 1] = lit[k]

startsWith(s, lit) == OccursAt(s, 1, lit)

\* first position >= from at which lit occurs in s, 0 when there is none
indexOf(s, lit, from) ==
    LET hits == {i \in from..Len(s) : OccursAt(s, i, lit)}
    IN  IF hits = {} THEN 0 ELSE Min(hits)

includes(s, lit) == indexOf(s, lit, 1) # 0

\* s.split('\n')
RECURSIVE split(_)
split(s) ==
    LET nl == indexOf(s, <<"\n">>, 1)
    IN  IF nl = 0 THEN <<s>>
        ELSE <<SubSeq(s, 1, nl - 1)>> \o split(substring(s, nl + 1))

\* ls.join('\n')
RECURSIVE join(_)
join(ls) ==
    IF ls = <<>> THEN <<>>
    ELSE IF Len(ls) = 1 THEN ls[1]
    ELSE ls[1] \o <<"\n">> \o join(Tail(ls))

(***************************************************************************)
(* The literals of the source, as token sequences                          *)
(***************************************************************************)
LitDiff == <<"diff", " ">>
LitDiffGit == <<"diff", " ", "-", "-", "git">>
LitIndex == <<"index", " ">>
LitMinus3 == <<"-", "-", "-", " ">>
LitPlus3 == <<"+", "+", "+", " ">>
LitNewFileMode == <<"new", " ", "file", " ", "mode">>
LitDeletedFileMode == <<"deleted", " ", "file", " ", "mode">>
LitRenameFrom == <<"rename", " ", "from">>
LitRenameTo == <<"rename", " ", "to">>
LitBinaryFiles == <<"Binary", " ", "files">>
LitHunk == <<"@", "@">>
LitMinus == <<"-">>
LitPlus == <<"+">>
LitSpace == <<" ">>

BinaryPlaceholder == <<"Binary file - no preview available">>
DeletedPlaceholder == <<"File was deleted in this PR">>
NoChangesPlaceholder == <<"No changes to display">>
ErrorPlaceholder == <<"Error parsing diff. The diff format may be unsupported.">>

\* \s of the regular expressions
IsSpace(t) == t \in {" ", "\n"}

(***************************************************************************)
(* The file pattern                                                        *)
(***************************************************************************)
\* the class [.*+?^${}()|[\]\\] of the escaping replace
RegexMeta == {".", "*", "+", "?", "^", "$", "{", "}", "(", ")", "|", "[", "]", "\\"}

\* mutant: the path goes into the pattern as it is
escapedPath_unescaped(p) == p

\* filePath.replace(/[.*+?^${}()|[\]\\]/g, '\\$&')
RECURSIVE escapedPath(_)
escapedPath(p) ==
    IF p = <<>> THEN <<>>
    ELSE (IF Head(p) \in RegexMeta THEN <<"\\", Head(p)>> ELSE <<Head(p)>>)
         \o escapedPath(Tail(p))

\* The pattern source of the path part, read as the RegExp constructor reads
\* it: a sequence of atoms, "\\" c a literal c, a bare "." any character, any
\* other character itself; an "error" atom where the constructor rejects the
\* source (a bare group or quantifier character with nothing to close or
\* repeat, a trailing backslash).
RECURSIVE PathAtoms(_)
PathAtoms(src) ==
    IF src = <<>> THEN <<>>
    ELSE IF Head(src) = "\\" THEN
        IF Len(src) < 2 THEN <<[kind |-> "error", tok |-> "\\"]>>
        ELSE <<[kind |-> "lit", tok |-> src[2]]>> \o PathAtoms(SubSeq(src, 3, Len(src)))
    ELSE IF Head(src) = "." THEN
        <<[kind |-> "any", tok |-> "."]>> \o PathAtoms(Tail(src))
    ELSE IF Head(src) \in RegexMeta THEN
        <<[kind |-> "error", tok |-> Head(src)]>> \o PathAtoms(Tail(src))
    ELSE <<[kind |-> "lit", tok |-> Head(src)]>> \o PathAtoms(Tail(src))

\* new RegExp(...) throws a SyntaxError
SyntaxError(atoms) == \E k \in 1..Len(atoms) : atoms[k].kind = "error"

\* the tokens that are one character long
OneChar == {" ", "\n", "-", "+", "@", "/", ".", "(", "a", "b", "p", "q", "r", "x", "y"}

\* one atom against one token; under the flag 's' a bare "." matches any one
\* character
AtomMatches(a, t) ==
    IF a.kind = "any" THEN t \in OneChar ELSE a.tok = t

\* the atoms match s from position i on
AtomsMatchAt(s, i, atoms) ==
    /\ i + Len(atoms) - 1 <= Len(s)
    /\ \A k \in 1..Len(atoms) : AtomMatches(atoms[k], s[i + k - 1])

\* 'diff --git a/[^\s]+ b/<path>' matched at position i of s: the position
\* after the match, 0 when it does not match there.  [^\s]+ is followed by a
\* space, so it takes exactly the run up to the first white space.
HeaderEndAt(s, i, atoms) ==
    LET lead == LitDiffGit \o <<" ", "a", "/">>
        o == i + Len(lead)
        stops == {j \in o..Len(s) : IsSpace(s[j])}
        sp == IF stops = {} THEN Len(s) + 1 ELSE Min(stops)
        b == <<" ", "b", "/">>
    IN  IF /\ OccursAt(s, i, lead)
           /\ sp > o
           /\ OccursAt(s, sp, b)
           /\ AtomsMatchAt(s, sp + Len(b), atoms)
        THEN sp + Len(b) + Len(atoms)
        ELSE 0

\* fullDiff.match(filePattern): the leftmost match; '.*?(?=diff --git|$)' ends
\* it before the first 'diff --git' at or after the path, or at the end of the
\* input.  Null when nothing matches, else the matched text and where it
\* starts.
matchFilePattern(s, atoms) ==
    LET starts == {i \in 1..Len(s) : HeaderEndAt(s, i, atoms) # 0}
    IN  IF starts = {} THEN Null
        ELSE LET i == Min(starts)
                 e == HeaderEndAt(s, i, atoms)
                 nxt == indexOf(s, LitDiffGit, e)
             IN  [kind |-> "match", index |-> i,
                  text |-> SubSeq(s, i, IF nxt = 0 THEN Len(s) ELSE nxt - 1)]

(***************************************************************************)
(* Classification of the fragment                                          *)
(***************************************************************************)
\* end of the line that position i of s lies on: the position of the next
\* "\n" at or after i, Len(s) + 1 when there is none
LineEnd(s, i) ==
    LET nl == indexOf(s, <<"\n">>, i) IN IF nl = 0 THEN Len(s) + 1 ELSE nl

\* /rename from (.+)\nrename to (.+)/ matched at position i of s.  '.' does
\* not cross a line break, so (.+) followed by \n is the non-empty rest of
\* the line, and the last (.+) the non-empty rest of the next line.
RenameAt(s, i) ==
    LET from == LitRenameFrom \o <<" ">>
        to == LitRenameTo \o <<" ">>
        g1 == i + Len(from)
        e1 == LineEnd(s, g1)
        g2 == e1 + 1 + Len(to)
        e2 == LineEnd(s, g2)
    IN  IF /\ OccursAt(s, i, from)
           /\ e1 > g1
           /\ e1 <= Len(s)
           /\ OccursAt(s, e1 + 1, to)
           /\ e2 > g2
        THEN [kind |-> "match", from |-> SubSeq(s, g1, e1 - 1),
              to |-> SubSeq(s, g2, e2 - 1)]
        ELSE Null

\* fileDiff.match(/rename from (.+)\nrename to (.+)/): the leftmost match
renameMatch(fd) ==
    LET starts == {i \in 1..Len(fd) : RenameAt(fd, i) # Null}
    IN  IF starts = {} THEN Null ELSE RenameAt(fd, Min(starts))

isNewFile(fd) == includes(fd, LitNewFileMode)

Result(content, decos) ==
    [kind |-> "value", content |-> content, decorations |-> decos]

\* mutant: the deleted-file test comes first
placeholderFor_deletedFirst(fd) ==
    IF includes(fd, LitDeletedFileMode) THEN Result(DeletedPlaceholder, <<>>)
    ELSE IF includes(fd, LitBinaryFiles) THEN Result(BinaryPlaceholder, <<>>)
    ELSE Null

\* mutant: the deleted-file test is missing
placeholderFor_binaryOnly(fd) ==
    IF includes(fd, LitBinaryFiles) THEN Result(BinaryPlaceholder, <<>>) ELSE Null

\* the two early returns of parseDiffWithColors: the placeholder result of a
\* binary or deleted fragment, Null for a fragment that is rendered
placeholderFor(fd) ==
    IF includes(fd, LitBinaryFiles) THEN Result(BinaryPlaceholder, <<>>)
    ELSE IF includes(fd, LitDeletedFileMode) THEN Result(DeletedPlaceholder, <<>>)
    ELSE Null

\* mutant: the new-file test comes before the rename test
banner_newFirst(fd) ==
    LET rm == renameMatch(fd)
    IN  IF isNewFile(fd) THEN <<(<<"// New file">>), <<>>>>
        ELSE IF rm # Null
        THEN <<(<<"// File renamed: ">> \o rm.from \o <<" -> ">> \o rm.to), <<>>>>
        ELSE <<>>

\* the lines pushed before the loop; " -> " stands for the arrow of the
\* template string
banner(fd) ==
    LET rm == renameMatch(fd)
    IN  IF rm # Null
        THEN <<(<<"// File renamed: ">> \o rm.from \o <<" -> ">> \o rm.to), <<>>>>
        ELSE IF isNewFile(fd) THEN <<(<<"// New file">>), <<>>>>
        ELSE <<>>

(***************************************************************************)
(* The rendering loop                                                      *)
(***************************************************************************)
\* mutant: the counter starts at 0 whatever was pushed before the loop
initialLineNumber_zero(cl) == 0

\* let lineNumber = contentLines.length
initialLineNumber(cl) == Len(cl)

\* mutant: the flag is left as the last call left it
initialInHunk_kept == inHunk

\* let inHunk = false
initialInHunk == FALSE

\* the 'Skip diff metadata' test of parseDiffWithColors
isMetadata(line) ==
    \/ startsWith(line, LitDiff)
    \/ startsWith(line, LitIndex)
    \/ startsWith(line, LitMinus3)
    \/ startsWith(line, LitPlus3)
    \/ startsWith(line, LitNewFileMode)
    \/ startsWith(line, LitDeletedFileMode)
    \/ startsWith(line, LitRenameFrom)
    \/ startsWith(line, LitRenameTo)

\* mutant: the range runs one line past the decorated line
Decoration_twoLines(n, cls, glyph) ==
    [startLineNumber |-> n, endLineNumber |-> n + 1, isWholeLine |-> TRUE,
     className |-> cls, glyphMarginClassName |-> glyph]

Decoration(n, cls, glyph) ==
    [startLineNumber |-> n, endLineNumber |-> n, isWholeLine |-> TRUE,
     className |-> cls, glyphMarginClassName |-> glyph]

\* line.startsWith(' ') ? line.substring(1) : line
contextText(line) ==
    IF startsWith(line, LitSpace) THEN substring(line, 2) ELSE line

\* One iteration of the loop over st = [contentLines, decorations,
\* lineNumber, inHunk] for the line `line`.
renderLine(st, line) ==
    IF isMetadata(line) THEN st
    ELSE IF startsWith(line, LitHunk) THEN
        [contentLines |-> Append(st.contentLines, line),
         decorations |-> Append(st.decorations,
                                Decoration(st.lineNumber + 1, "diff-hunk-header", "undefined")),
         lineNumber |-> st.lineNumber + 1,
         inHunk |-> TRUE]
    ELSE IF ~st.inHunk THEN st
    ELSE IF startsWith(line, LitMinus) THEN
        [st EXCEPT !.lineNumber = @ + 1,
                   !.contentLines = Append(@, substring(line, 2)),
                   !.decorations = Append(@, Decoration(st.lineNumber + 1,
                                              "diff-line-deleted", "diff-glyph-deleted"))]
    ELSE IF startsWith(line, LitPlus) THEN
        [st EXCEPT !.lineNumber = @ + 1,
                   !.contentLines = Append(@, substring(line, 2)),
                   !.decorations = Append(@, Decoration(st.lineNumber + 1,
                                              "diff-line-added", "diff-glyph-added"))]
    ELSE
        [st EXCEPT !.lineNumber = @ + 1,
                   !.contentLines = Append(@, contextText(line))]

\* mutant: no placeholder for an empty buffer
finalResult_noPlaceholder(cl, decos) == Result(join(cl), decos)

\* the return after the loop
finalResult(cl, decos) ==
    IF Len(cl) = 0 THEN Result(NoChangesPlaceholder, <<>>)
    ELSE Result(join(cl), decos)

(***************************************************************************)
(* parseDiffForFile                                                        *)
(***************************************************************************)
\* the 'Skip diff metadata' test of parseDiffForFile
isMetadataForFile(line) ==
    \/ startsWith(line, LitDiff)
    \/ startsWith(line, LitIndex)
    \/ startsWith(line, LitMinus3)
    \/ startsWith(line, LitPlus3)

\* one iteration of the loop of parseDiffForFile over
\* st = [originalLines, modifiedLines, inHunk]
forFileLine(st, line) ==
    IF startsWith(line, LitHunk) THEN [st EXCEPT !.inHunk = TRUE]
    ELSE IF ~st.inHunk THEN st
    ELSE IF isMetadataForFile(line) THEN st
    ELSE IF startsWith(line, LitMinus) THEN
        [st EXCEPT !.originalLines = Append(@, substring(line, 2))]
    ELSE IF startsWith(line, LitPlus) THEN
        [st EXCEPT !.modifiedLines = Append(@, substring(line, 2))]
    ELSE [st EXCEPT !.originalLines = Append(@, contextText(line)),
                    !.modifiedLines = Append(@, contextText(line))]

RECURSIVE forFileLoop(_, _)
forFileLoop(st, ls) ==
    IF ls = <<>> THEN st ELSE forFileLoop(forFileLine(st, Head(ls)), Tail(ls))

parseDiffForFile(diff, path) ==
    IF diff = <<>> \/ path = <<>> THEN Null
    ELSE LET atoms == PathAtoms(escapedPath(path))
         IN  IF SyntaxError(atoms) THEN Null
             ELSE LET m == matchFilePattern(diff, atoms)
                  IN  IF m = Null THEN Null
                      ELSE IF includes(m.text, LitBinaryFiles) THEN Null
                      ELSE IF includes(m.text, LitDeletedFileMode) THEN Null
                      ELSE LET st == forFileLoop([originalLines |-> <<>>,
                                                  modifiedLines |-> <<>>,
                                                  inHunk |-> FALSE],
                                                 split(m.text))
                           IN  [kind |-> "value",
                                original |-> join(st.originalLines),
                                modified |-> join(st.modifiedLines)]

(***************************************************************************)
(* Inputs                                                                  *)
(***************************************************************************)
PathP == <<"p">>
PathR == <<"r">>
PathPQ == <<"p", ".", "q">>
PathParen == <<"(">>

\* the file paths asked for; the empty path is the empty string
FilePaths == {<<>>, PathP, PathR, PathPQ, PathParen}

\* 'diff --git a/<old> b/<new>'
Header(old, new) == LitDiffGit \o <<" ", "a", "/">> \o old \o <<" ", "b", "/">> \o new

HeaderRP == Header(PathR, PathP)
HeaderPPQ == Header(PathP, PathPQ)
HunkLine == <<"@", "@">>
AddLine == <<"+", "x">>
DelLine == <<"-", "y">>
CtxLine == <<" ", "x">>
BareLine == <<"x">>
\* a deleted line whose text is '-- x'
DelDashLine == <<"-", "-", "-", " ", "x">>
\* an added line whose text holds 'diff --git'
AddDiffGitLine == <<"+", "x", " ">> \o LitDiffGit \o <<" ", "y">>
NewFileLine == LitNewFileMode
DeletedFileLine == LitDeletedFileMode
RenameFromLine == LitRenameFrom \o <<" ", "r">>
RenameToLine == LitRenameTo \o <<" ", "p">>
BinaryLine == LitBinaryFiles \o <<" ", "x">>
\* an added line whose text is 'Binary files'
AddBinaryLine == <<"+">> \o LitBinaryFiles

\* lines of the inputs that exercise the selection of the fragment
SelectLines == {HeaderRP, HeaderPPQ, HunkLine, AddLine, AddDiffGitLine, BareLine}

\* lines that follow the header in the inputs that exercise the rendering
RenderLines == {HunkLine, AddLine, DelLine, CtxLine, DelDashLine, NewFileLine,
                DeletedFileLine, RenameFromLine, RenameToLine, BinaryLine, AddBinaryLine}

SeqsUpTo(S, n) == UNION {[1..k -> S] : k \in 0..n}

Inputs ==
    {<<join(ls), path>> : ls \in SeqsUpTo(SelectLines, MaxLines), path \in FilePaths}
    \cup {<<join(<<HeaderRP>> \o ls), PathP>> : ls \in SeqsUpTo(RenderLines, MaxLines - 1)}

(***************************************************************************)
(* The state machine: one call of parseDiffWithColors, run line by line,   *)
(* and one call of parseDiffForFile on the same arguments.  The functions  *)
(* are synchronous: neither runs inside the other.                         *)
(***************************************************************************)
Init ==
    /\ \E in \in Inputs : fullDiff = in[1] /\ filePath = in[2]
    /\ pc = "start"
    /\ fileDiff = <<>>
    /\ lines = <<>>
    /\ idx = 1
    /\ contentLines = <<>>
    /\ decorations = <<>>
    /\ lineNumber = 0
    /\ inHunk = FALSE
    /\ colors = Pending
    /\ forFile = Pending
    /\ NonDiffIdle
    /\ RetryIdle
    /\ CacheIdle
    /\ ChatIdle

\* parseDiffWithColors returns r, having selected the fragment fd
Returns(r, fd) ==
    /\ pc' = "done"
    /\ colors' = r
    /\ fileDiff' = fd
    /\ UNCHANGED <<fullDiff, filePath, lines, idx, contentLines, decorations,
                   lineNumber, inHunk, forFile>>

\* parseDiffWithColors from its entry to the start of the loop
Begin ==
    /\ pc = "start"
    /\ IF fullDiff = <<>> \/ filePath = <<>> THEN Returns(Null, <<>>)
       ELSE LET atoms == PathAtoms(escapedPath(filePath))
            IN  IF SyntaxError(atoms) THEN Returns(Result(ErrorPlaceholder, <<>>), <<>>)
                ELSE LET m == matchFilePattern(fullDiff, atoms)
                     IN  IF m = Null THEN Returns(Null, <<>>)
                         ELSE IF placeholderFor(m.text) # Null
                         THEN Returns(placeholderFor(m.text), m.text)
                         ELSE /\ pc' = "loop"
                              /\ fileDiff' = m.text
                              /\ lines' = split(m.text)
                              /\ idx' = 1
                              /\ contentLines' = banner(m.text)
                              /\ decorations' = <<>>
                              /\ lineNumber' = initialLineNumber(banner(m.text))
                              /\ inHunk' = initialInHunk
                              /\ UNCHANGED <<fullDiff, filePath, colors, forFile>>

\* one iteration of 'for (const line of lines)'
Step ==
    /\ pc = "loop"
    /\ idx <= Len(lines)
    /\ LET st == renderLine([contentLines |-> contentLines, decorations |-> decorations,
                             lineNumber |-> lineNumber, inHunk |-> inHunk], lines[idx])
       IN  /\ contentLines' = st.contentLines
           /\ decorations' = st.decorations
           /\ lineNumber' = st.lineNumber
           /\ inHunk' = st.inHunk
    /\ idx' = idx + 1
    /\ UNCHANGED <<fullDiff, filePath, pc, fileDiff, lines, colors, forFile>>

\* the return after the loop
Finish ==
    /\ pc = "loop"
    /\ idx > Len(lines)
    /\ pc' = "done"
    /\ colors' = finalResult(contentLines, decorations)
    /\ UNCHANGED <<fullDiff, filePath, fileDiff, lines, idx, contentLines, decorations,
                   lineNumber, inHunk, forFile>>

\* a call of parseDiffForFile on the same arguments
CallParseDiffForFile ==
    /\ pc \in {"start", "done"}
    /\ forFile = Pending
    /\ forFile' = parseDiffForFile(fullDiff, filePath)
    /\ UNCHANGED <<fullDiff, filePath, pc, fileDiff, lines, idx, contentLines,
                   decorations, lineNumber, inHunk, colors>>

Next ==
    \/ Begin /\ UNCHANGED nonDiffVars
    \/ Step /\ UNCHANGED nonDiffVars
    \/ Finish /\ UNCHANGED nonDiffVars
    \/ CallParseDiffForFile /\ UNCHANGED nonDiffVars

Spec == Init /\ [][Next]_vars

(***************************************************************************)
(* Vocabulary of the properties                                            *)
(***************************************************************************)
InputLines == split(fullDiff)
FragmentLines == split(fileDiff)

\* parseDiffWithColors has returned a value, not null
Done == pc = "done"
Rendered == Done /\ colors.kind = "value"

\* the display lines of a returned value
DisplayLines == split(colors.content)

\* line is the file header 'diff --git a/<old> b/<new>' with <new> = p
IsHeaderFor(line, p) == \E old \in FilePaths \ {<<>>} : line = Header(old, p)

\* the positions of the input lines that are file headers of the path asked for
HeadersOfPath == {i \in 1..Len(InputLines) : IsHeaderFor(InputLines[i], filePath)}

\* the position of the first hunk header of ls, Len(ls) + 1 when it has none
FirstHunk(ls) ==
    LET hs == {i \in 1..Len(ls) : startsWith(ls[i], LitHunk)}
    IN  IF hs = {} THEN Len(ls) + 1 ELSE Min(hs)

\* the lines of ls after its first hunk header
HunkBody(ls) == SubSeq(ls, FirstHunk(ls) + 1, Len(ls))

IsMinusLine(line) == Len(line) > 0 /\ line[1] = "-"
IsPlusLine(line) == Len(line) > 0 /\ line[1] = "+"

(***************************************************************************)
(* C1                                                                      *)
(***************************************************************************)
\* C1 (as claimed): the section is selected by the exact new path.  When no
\* line of the input is a header 'diff --git a/<old> b/<new>' with <new> equal
\* to filePath, parseDiffWithColors returns null; when there is one, the
\* result is rendered from a fragment that starts with such a header.
C1_ExactPathSelection ==
    Done =>
        /\ HeadersOfPath = {} => colors = Null
        /\ HeadersOfPath # {} =>
               /\ colors # Null
               /\ IsHeaderFor(FragmentLines[1], filePath)

(***************************************************************************)
(* C2                                                                      *)
(***************************************************************************)
\* the '-' and '+' lines of the fragment's hunks, in order, as the display
\* line and decoration each has to produce
MarkedExpected ==
    LET marked == SelectSeq(HunkBody(FragmentLines),
                            LAMBDA l : IsMinusLine(l) \/ IsPlusLine(l))
    IN  [k \in 1..Len(marked) |->
            [text |-> SubSeq(marked[k], 2, Len(marked[k])),
             className |-> IF IsMinusLine(marked[k]) THEN "diff-line-deleted"
                           ELSE "diff-line-added",
             glyph |-> IF IsMinusLine(marked[k]) THEN "diff-glyph-deleted"
                       ELSE "diff-glyph-added"]]

\* the display lines decorated as deleted or added, in order
MarkedRendered ==
    LET ds == SelectSeq(colors.decorations,
                        LAMBDA d : d.className \in {"diff-line-deleted", "diff-line-added"})
    IN  [k \in 1..Len(ds) |->
            [text |-> DisplayLines[ds[k].startLineNumber],
             className |-> ds[k].className,
             glyph |-> ds[k].glyphMarginClassName]]

\* C2 (as claimed): every line of the fragment inside a hunk that begins with
\* '-' or '+', whatever follows, yields exactly one display line, the line
\* without its first character, decorated as deleted or added; none is dropped.
C2_EveryMarkedLineRendered ==
    (Rendered /\ lines # <<>>) => MarkedRendered = MarkedExpected

(***************************************************************************)
(* C3                                                                      *)
(***************************************************************************)
\* a step of the loop over a source line that is a hunk header, a '+' line or
\* a '-' line
MarkedSource(line) == startsWith(line, LitHunk) \/ IsMinusLine(line) \/ IsPlusLine(line)

LoopStep == pc = "loop" /\ pc' = "loop"

\* in a returned value every decoration covers one line of the display
\* buffer and the decorated lines are strictly increasing
C3_Ranges ==
    Rendered =>
        LET ds == colors.decorations
        IN  /\ \A k \in 1..Len(ds) :
                   /\ ds[k].startLineNumber = ds[k].endLineNumber
                   /\ 1 <= ds[k].startLineNumber
                   /\ ds[k].startLineNumber <= Len(DisplayLines)
            /\ \A k \in 1..(Len(ds) - 1) :
                   ds[k].startLineNumber < ds[k + 1].startLineNumber

\* a display line gets its one decoration when it is appended, if and only if
\* its source line is a hunk header, a '+' line or a '-' line; the banner lines
\* and the context lines get none; the returned value holds these decorations
C3_Origin ==
    /\ (pc = "start" /\ pc' = "loop") => decorations' = <<>>
    /\ LoopStep =>
           IF contentLines' = contentLines THEN decorations' = decorations
           ELSE /\ contentLines' = Append(contentLines, contentLines'[Len(contentLines')])
                /\ IF MarkedSource(lines[idx])
                   THEN /\ Len(decorations') = Len(decorations) + 1
                        /\ SubSeq(decorations', 1, Len(decorations)) = decorations
                        /\ decorations'[Len(decorations')].startLineNumber = Len(contentLines')
                   ELSE decorations' = decorations
    /\ (pc = "loop" /\ pc' = "done" /\ contentLines # <<>>) =>
           /\ colors'.decorations = decorations
           /\ split(colors'.content) = contentLines

\* C3: in every non-null result each decoration covers a single line within
\* the display buffer, decorated lines strictly increase (no overlap), and a
\* display line carries exactly one decoration if it comes from a hunk header,
\* a '+' line or a '-' line and none if it is a context or banner line.
C3_OneDecorationPerMarkedLine == []C3_Ranges /\ [][C3_Origin]_vars

\* a rendered fragment with two decorated lines and an undecorated one
C3_Witness ==
    /\ Rendered
    /\ lines # <<>>
    /\ Len(colors.decorations) >= 2
    /\ Len(DisplayLines) > Len(colors.decorations)

(***************************************************************************)
(* C4                                                                      *)
(***************************************************************************)
\* positions of consecutive lines 'rename from X' / 'rename to Y' of ls
RenamePairs(ls) ==
    {i \in 1..(Len(ls) - 1) :
        /\ startsWith(ls[i], LitRenameFrom \o <<" ">>)
        /\ Len(ls[i]) > Len(LitRenameFrom) + 1
        /\ startsWith(ls[i + 1], LitRenameTo \o <<" ">>)
        /\ Len(ls[i + 1]) > Len(LitRenameTo) + 1}

\* some line of ls holds the text 'new file mode'
HasNewFileText(ls) == \E i \in 1..Len(ls) : includes(ls[i], LitNewFileMode)

\* the loop of parseDiffWithColors has been entered
InLoop == pc \in {"loop", "done"} /\ lines # <<>>

C4_Counter ==
    InLoop =>
        /\ lineNumber = Len(contentLines)
        /\ (/\ RenamePairs(FragmentLines) # {} \/ HasNewFileText(FragmentLines)
            /\ decorations # <<>>) =>
               /\ decorations[1].startLineNumber = 3
               /\ decorations[1].className = "diff-hunk-header"

C4_Step ==
    LoopStep =>
        /\ contentLines' = contentLines => lineNumber' = lineNumber
        /\ decorations' # decorations =>
               LET d == decorations'[Len(decorations')]
                   src == lines[idx]
               IN  /\ d.startLineNumber = Len(contentLines')
                   /\ contentLines'[d.startLineNumber] =
                          IF startsWith(src, LitHunk) THEN src
                          ELSE SubSeq(src, 2, Len(src))

\* C4: decoration line numbers are 1-based positions in the final display
\* buffer.  After every append the line counter equals the buffer length; a
\* decoration points at the display line made from its own source line; a
\* skipped line consumes no line number; with a rename or new-file banner the
\* first hunk header is decorated at line 3.
C4_LineNumbersIndexDisplayBuffer == []C4_Counter /\ [][C4_Step]_vars

\* a renamed file with a hunk: the hunk header is decorated at line 3
C4_Witness ==
    /\ InLoop
    /\ Done
    /\ RenamePairs(FragmentLines) # {}
    /\ decorations # <<>>
    /\ decorations[1].startLineNumber = 3

(***************************************************************************)
(* C5                                                                      *)
(***************************************************************************)
\* line is a file-header line: it starts with 'diff --git'
IsFileHeader(line) == startsWith(line, LitDiffGit)

\* line is a file header whose new path is longer than p and starts with p
IsHeaderWithPrefix(line, p) ==
    \E old \in FilePaths \ {<<>>}, new \in FilePaths \ {<<>>} :
        line = Header(old, new) /\ new # p /\ startsWith(new, p)

\* the section of the input that starts at the header line h: the lines from
\* h up to, but excluding, the next file-header line, or to the end of input
Section(h) ==
    LET nx == {i \in (h + 1)..Len(InputLines) : IsFileHeader(InputLines[i])}
    IN  SubSeq(InputLines, h, IF nx = {} THEN Len(InputLines) ELSE Min(nx) - 1)

\* the first header of filePath is the first header the request can select
SelectsOwnHeader ==
    /\ HeadersOfPath # {}
    /\ \A i \in 1..Min(HeadersOfPath) : ~IsHeaderWithPrefix(InputLines[i], filePath)

\* C5 (as claimed): the fragment rendered for filePath runs from its file-header
\* line up to, but excluding, the next file-header line (or the end of the
\* input), so that every line of the section, also one whose text holds
\* 'diff --git', reaches the renderer and no line of another section does.
C5_FragmentIsWholeSection ==
    (Done /\ SelectsOwnHeader) =>
        LET sec == join(Section(Min(HeadersOfPath)))
        IN  fileDiff = sec \/ fileDiff = sec \o <<"\n">>

(***************************************************************************)
(* C6, C7                                                                  *)
(***************************************************************************)
\* some line of ls holds the text lit
HasText(ls, lit) == \E i \in 1..Len(ls) : includes(ls[i], lit)

\* a fragment was selected
Found == Done /\ fileDiff # <<>>

\* the marker texts of a binary and of a deleted file in the fragment
BinaryMarker == HasText(FragmentLines, LitBinaryFiles)
DeletedMarker == HasText(FragmentLines, LitDeletedFileMode)

HasHunk(ls) == \E i \in 1..Len(ls) : startsWith(ls[i], LitHunk)

\* C6: when the selected fragment holds the binary marker text 'Binary files',
\* parseDiffWithColors returns exactly 'Binary file - no preview available'
\* with no decorations, whatever hunks, deletion, rename or new-file markers
\* the fragment holds as well, and parseDiffForFile returns null.
C6_BinaryPlaceholder ==
    (Found /\ BinaryMarker) =>
        /\ colors = Result(BinaryPlaceholder, <<>>)
        /\ forFile # Pending => forFile = Null

\* a binary fragment that also holds a deletion marker and a hunk
C6_Witness ==
    /\ Found
    /\ BinaryMarker
    /\ DeletedMarker
    /\ HasHunk(FragmentLines)
    /\ forFile = Null

RenameBanner(ls) ==
    LET i == Min(RenamePairs(ls))
    IN  <<"// File renamed: ">> \o SubSeq(ls[i], Len(LitRenameFrom) + 2, Len(ls[i]))
        \o <<" -> ">> \o SubSeq(ls[i + 1], Len(LitRenameTo) + 2, Len(ls[i + 1]))

IsBannerLine(line) ==
    \/ line = <<"// New file">>
    \/ (Len(line) > 0 /\ line[1] = "// File renamed: ")

NoBanner == RenamePairs(FragmentLines) = {} /\ ~HasNewFileText(FragmentLines)

\* C9 (as claimed): a found fragment with no '@@' hunk and no rename or new-file
\* banner renders as the single line 'No changes to display' with no
\* decorations, and no returned value has an empty display buffer.
C9_Original ==
    /\ (Found /\ ~HasHunk(FragmentLines) /\ NoBanner) =>
           colors = Result(NoChangesPlaceholder, <<>>)
    /\ Rendered => colors.content # <<>>

\* C9 (amended): a found fragment that is neither binary nor deleted, with no
\* '@@' hunk and no rename or new-file banner, renders as the single line
\* 'No changes to display' with no decorations, and no returned value has an
\* empty display buffer.
C9_NoChangesPlaceholder ==
    /\ (Found /\ ~BinaryMarker /\ ~DeletedMarker /\ ~HasHunk(FragmentLines) /\ NoBanner) =>
           colors = Result(NoChangesPlaceholder, <<>>)
    /\ Rendered => colors.content # <<>>

\* a section of a header and two more lines, none of them a hunk header
C9_Witness ==
    /\ Found
    /\ Len(FragmentLines) >= 3
    /\ ~HasHunk(FragmentLines)
    /\ colors = Result(NoChangesPlaceholder, <<>>)

(***************************************************************************)
(* C10                                                                     *)
(***************************************************************************)
\* no file header is recognizable in the input
NoHeaderText == ~includes(fullDiff, LitDiffGit \o <<" ", "a", "/">>)

\* C10: for every pair of strings, the empty ones and paths made of regex
\* metacharacters included, both functions run to their return and return
\* null or a value; when no header is recognizable in the input both return
\* null; the one-line error placeholder comes with no decorations.
C10_NeverThrows ==
    /\ pc = "loop" => idx <= Len(lines) + 1
    /\ Done => colors.kind \in {"null", "value"}
    /\ forFile # Pending => forFile.kind \in {"null", "value"}
    /\ (Done /\ NoHeaderText) => colors = Null
    /\ (forFile # Pending /\ NoHeaderText) => forFile = Null
    /\ (Rendered /\ colors.content = ErrorPlaceholder) => colors.decorations = <<>>

\* a path that is a regex metacharacter, on input with no header: null twice
C10_Witness ==
    /\ Done
    /\ filePath = PathParen
    /\ fullDiff # <<>>
    /\ NoHeaderText
    /\ colors = Null
    /\ forFile = Null


(***************************************************************************)
(* parseDiffHunk (packages/web/src/lib/utils.ts)                           *)
(***************************************************************************)
\* \d of the regular expressions
Digits == {"0", "1", "2", "3", "4", "5", "6", "7", "8", "9"}

DigitValue(c) ==
    CASE c = "0" -> 0 [] c = "1" -> 1 [] c = "2" -> 2 [] c = "3" -> 3
      [] c = "4" -> 4 [] c = "5" -> 5 [] c = "6" -> 6 [] c = "7" -> 7
      [] c = "8" -> 8 [] c = "9" -> 9

\* parseInt(ds, 10) of a non-empty string of digits
RECURSIVE DecimalValue(_)
DecimalValue(ds) ==
    IF ds = <<>> THEN 0
    ELSE 10 * DecimalValue(SubSeq(ds, 1, Len(ds) - 1)) + DigitValue(ds[Len(ds)])

\* the position after the longest run of digits of s that starts at i
RECURSIVE DigitRunEnd(_, _)
DigitRunEnd(s, i) ==
    IF i <= Len(s) /\ s[i] \in Digits THEN DigitRunEnd(s, i + 1) ELSE i

\* '(?:,\d+)?' at position i of s: the position after it.  The group is
\* greedy, so it is taken whenever a ',' and a digit are there.
OptionalCountEnd(s, i) ==
    IF OccursAt(s, i, <<",">>) /\ DigitRunEnd(s, i + 1) > i + 1
    THEN DigitRunEnd(s, i + 1) ELSE i

\* /@@ -\d+(?:,\d+)? \+(\d+)(?:,(\d+))? @@/ matched at position i of s.  A
\* digit run is followed in the pattern by ',' or ' ', so only the longest
\* run can continue the match, and giving up an optional group leaves a ','
\* where the pattern wants ' ': the first attempt at i is the only one that
\* can succeed.  g2 is the empty text when the second group did not take part.
hunkRegexAt(s, i) ==
    LET a == i + 4
        aEnd == DigitRunEnd(s, a)
        bEnd == OptionalCountEnd(s, aEnd)
        c == bEnd + 2
        cEnd == DigitRunEnd(s, c)
        dEnd == OptionalCountEnd(s, cEnd)
    IN  IF /\ OccursAt(s, i, <<"@", "@", " ", "-">>)
           /\ aEnd > a
           /\ OccursAt(s, bEnd, <<" ", "+">>)
           /\ cEnd > c
           /\ OccursAt(s, dEnd, <<" ", "@", "@">>)
        THEN [kind |-> "match", g1 |-> SubSeq(s, c, cEnd - 1),
              g2 |-> IF dEnd > cEnd THEN SubSeq(s, cEnd + 1, dEnd - 1) ELSE <<>>]
        ELSE Null

\* diffHunk.match(hunkRegex): the leftmost match
hunkMatch(s) ==
    LET starts == {i \in 1..Len(s) : hunkRegexAt(s, i) # Null}
    IN  IF starts = {} THEN Null ELSE hunkRegexAt(s, Min(starts))

\* mutant: a missing count reads as no lines
lineCount_zeroDefault(g2) == IF g2 # <<>> THEN DecimalValue(g2) ELSE 0

\* match[2] ? parseInt(match[2], 10) : 1
lineCount(g2) == IF g2 # <<>> THEN DecimalValue(g2) ELSE 1

HunkRange(start, count) == [kind |-> "value", startLine |-> start, lineCount |-> count]

parseDiffHunk(s) ==
    IF s = <<>> THEN Null
    ELSE LET m == hunkMatch(s)
         IN  IF m = Null THEN Null
             ELSE HunkRange(DecimalValue(m.g1), lineCount(m.g2))

\* longest number of a hunk header in the inputs, in digits
MaxDigits == 2

\* Format: @@ -40,7 +40,8 @@ optional context.  An input is written as
\*   pre '@@' s1 '-' a ob plus c od close suf
\* where each piece is either the piece of a header or a piece that spoils it;
\* the numbers of the new range are the strings of the digits '0' and '7'.
HunkShapes ==
    LET NumStrings == UNION {[1..k -> {"0", "7"}] : k \in 1..MaxDigits} IN
    [pre : {<<>>, <<"x", " ">>, <<"@", "@", " ", "-", "1", " ", "+", "2", " ">>},
     s1 : {<<" ">>, <<>>},
     a : {<<"1">>, <<>>},
     ob : {<<>>, <<",", "7">>},
     plus : {<<" ", "+">>, <<"+">>, <<" ">>},
     c : NumStrings \cup {<<>>},
     od : {<<>>, <<",">>} \cup {<<",">> \o d : d \in NumStrings},
     close : {<<" ", "@", "@">>, <<"@", "@">>, <<" ", "@">>},
     suf : {<<>>, <<" ", "x">>,
            <<" ", "@", "@", " ", "-", "1", " ", "+", "9", " ", "@", "@">>}]

HunkText(sh) ==
    sh.pre \o <<"@", "@">> \o sh.s1 \o <<"-">> \o sh.a \o sh.ob \o sh.plus
    \o sh.c \o sh.od \o sh.close \o sh.suf

(***************************************************************************)
(* Specification of parseDiffHunk: one call on one input                   *)
(***************************************************************************)
\* the diff extractor / renderer left out
DiffIdle ==
    /\ fullDiff = <<>>
    /\ filePath = <<>>
    /\ pc = "start"
    /\ fileDiff = <<>>
    /\ lines = <<>>
    /\ idx = 1
    /\ contentLines = <<>>
    /\ decorations = <<>>
    /\ lineNumber = 0
    /\ inHunk = FALSE
    /\ colors = Pending
    /\ forFile = Pending
    /\ callLog = <<>>

HunkInit ==
    /\ \/ diffHunk = <<>> /\ hunkShape = Null
       \/ \E sh \in HunkShapes : diffHunk = HunkText(sh) /\ hunkShape = sh
    /\ hunkResult = Pending
    /\ DiffIdle
    /\ ValidationIdle
    /\ OpencodeIdle
    /\ StoreIdle
    /\ CommentIdle
    /\ RetryIdle
    /\ CacheIdle
    /\ ChatIdle

CallParseDiffHunk ==
    /\ hunkResult = Pending
    /\ hunkResult' = parseDiffHunk(diffHunk)
    /\ UNCHANGED <<diffHunk, hunkShape, nonHunkVars>>

SpecHunk == HunkInit /\ [][CallParseDiffHunk]_vars

(***************************************************************************)
(* C11                                                                     *)
(***************************************************************************)
\* the pieces of sh between pre and suf are those of a hunk header
IsHeaderShape(sh) ==
    /\ sh.s1 = <<" ">>
    /\ sh.a # <<>>
    /\ sh.plus = <<" ", "+">>
    /\ sh.c # <<>>
    /\ sh.od # <<",">>
    /\ sh.close = <<" ", "@", "@">>

\* the number a string of digits denotes in base 10
RECURSIVE NumberOf(_)
NumberOf(ds) ==
    IF ds = <<>> THEN 0 ELSE NumberOf(SubSeq(ds, 1, Len(ds) - 1)) * 10 + DigitValue(ds[Len(ds)])

\* What the first hunk header of the input written from sh says, Null when the
\* input holds none.  The third pre ends in '+2 ' and the input goes on with
\* '@@', so there the first header is '@@ -1 +2 @@'; the third suf is the
\* header '@@ -1 +9 @@'.
HunkExpected(sh) ==
    IF sh = Null THEN Null
    ELSE IF Len(sh.pre) > 2 THEN HunkRange(2, 1)
    ELSE IF IsHeaderShape(sh)
    THEN HunkRange(NumberOf(sh.c),
                   IF sh.od = <<>> THEN 1 ELSE NumberOf(Tail(sh.od)))
    ELSE IF Len(sh.suf) > 2 THEN HunkRange(9, 1)
    ELSE Null

\* C11: parseDiffHunk returns the new start and the new count of the first
\* hunk header '@@ -a[,b] +c[,d] @@' of its argument, whatever text comes
\* before or after the header, with the count 1 when ',d' is missing, and
\* null for the empty string and for a string that holds no such header.
C11_ParseDiffHunk ==
    hunkResult # Pending => hunkResult = HunkExpected(hunkShape)

\* a header with no new count and with text after the closing '@@' has been
\* parsed, and the count is 1
C11_Witness ==
    /\ hunkResult # Pending
    /\ hunkShape # Null
    /\ Len(hunkShape.pre) <= 2
    /\ IsHeaderShape(hunkShape)
    /\ hunkShape.od = <<>>
    /\ hunkShape.suf = <<" ", "x">>
    /\ hunkResult = HunkRange(7, 1)

(***************************************************************************)
(* The validators (packages/server/src/utils/validation.ts)                *)
(***************************************************************************)
\* !v
Falsy(v) ==
    \/ v.t \in {"undefined", "null"}
    \/ v.t = "number" /\ v.n = 0
    \/ v.t = "string" /\ v.s = <<>>

\* the decimal digits of a natural number
RECURSIVE NatToString(_)
NatToString(n) ==
    LET DigitChar(d) == CHOOSE c \in Digits : DigitValue(c) = d
    IN  IF n < 10 THEN <<DigitChar(n)>>
        ELSE NatToString(n \div 10) \o <<DigitChar(n % 10)>>

\* String(v), the first step of parseInt; the numbers are integers
StringOf(v) ==
    CASE v.t = "string" -> v.s
      [] v.t = "number" -> IF v.n < 0 THEN <<"-">> \o NatToString(0 - v.n) ELSE NatToString(v.n)
      [] v.t = "null" -> <<"n", "u", "l", "l">>
      [] v.t = "undefined" -> <<"u", "n", "d", "e", "f", "i", "n", "e", "d">>

\* the white space parseInt strips from the front of its input
RECURSIVE TrimStart(_)
TrimStart(s) ==
    IF s # <<>> /\ Head(s) \in {" ", "\t", "\n", "\r"} THEN TrimStart(Tail(s)) ELSE s

NaN == [nan |-> TRUE, n |-> 0]

\* parseInt(v, 10): leading white space is dropped, then an optional sign,
\* then the longest run of digits; NaN when that run is empty
parseInt(v) ==
    LET t == TrimStart(StringOf(v))
        neg == t # <<>> /\ Head(t) = "-"
        u == IF t # <<>> /\ Head(t) \in {"+", "-"} THEN Tail(t) ELSE t
        e == DigitRunEnd(u, 1)
        m == DecimalValue(SubSeq(u, 1, e - 1))
    IN  IF e = 1 THEN NaN ELSE [nan |-> FALSE, n |-> IF neg THEN 0 - m ELSE m]

Return(v) == [kind |-> "return", value |-> v]
Throw(msg) == [kind |-> "throw", message |-> msg]

\* the largest PR number
MaxPRNumber == 999999

\* mutant: the upper limit is not tested
validatePRNumber_noUpperLimit(value) ==
    LET num == parseInt(value)
    IN  IF num.nan \/ num.n < 1 THEN Throw("Invalid PR number") ELSE Return(num.n)

validatePRNumber(value) ==
    LET num == parseInt(value)
    IN  IF num.nan \/ num.n < 1 \/ num.n > MaxPRNumber
        THEN Throw("Invalid PR number") ELSE Return(num.n)

\* the longest path, in characters
MaxPathLength == 1000

\* the character U+0000
NUL == "\\0"

\* mutant: a path that starts with '/' is let through
validateFilePath_absoluteAllowed(path) ==
    IF Falsy(path) \/ path.t # "string" THEN Throw("Invalid file path")
    ELSE IF includes(path.s, <<".", ".">>)
    THEN Throw("Invalid file path: directory traversal not allowed")
    ELSE IF Len(path.s) > MaxPathLength THEN Throw("File path too long")
    ELSE IF includes(path.s, <<NUL>>) THEN Throw("Invalid file path: null bytes not allowed")
    ELSE Return(path)

validateFilePath(path) ==
    IF Falsy(path) \/ path.t # "string" THEN Throw("Invalid file path")
    ELSE IF includes(path.s, <<".", ".">>) \/ startsWith(path.s, <<"/">>)
    THEN Throw("Invalid file path: directory traversal not allowed")
    ELSE IF Len(path.s) > MaxPathLength THEN Throw("File path too long")
    ELSE IF includes(path.s, <<NUL>>) THEN Throw("Invalid file path: null bytes not allowed")
    ELSE Return(path)

\* the largest line number
MaxLineNumber == 1000000

\* validateLineNumber: the number, JSUndefined for a value that is refused
validateLineNumber(value) ==
    IF value.t \in {"undefined", "null"} THEN JSUndefined
    ELSE LET num == parseInt(value)
         IN  IF num.nan \/ num.n < 1 \/ num.n > MaxLineNumber THEN JSUndefined
             ELSE JSNumber(num.n)

(***************************************************************************)
(* Specification of validatePRNumber: one call on one input                *)
(***************************************************************************)
\* longest number of the inputs, in digits
MaxPRDigits == 7

\* a string argument is written as: white space, sign, digits, rest
PRShapes ==
    [ws : {<<>>, <<" ">>},
     sign : {<<>>, <<"-">>, <<"+">>},
     digits : UNION {[1..k -> {"0", "1", "9"}] : k \in 0..MaxPRDigits},
     rest : {<<>>, <<"a", "b", "c">>, <<".", "5">>}]

PRText(sh) == sh.ws \o sh.sign \o sh.digits \o sh.rest

PRInit ==
    /\ \/ prValue \in {JSUndefined, JSNull} /\ prShape = Null
       \/ \E n \in {0 - 1, 0, 1, 456, MaxPRNumber, MaxPRNumber + 1} : prValue = JSNumber(n) /\ prShape = Null
       \/ \E sh \in PRShapes : prValue = JSString(PRText(sh)) /\ prShape = sh
    /\ prResult = Pending
    /\ reqBody = [filePath |-> JSUndefined, line |-> JSUndefined]
    /\ pathResult = Pending
    /\ editorPc = "start"
    /\ command = Null
    /\ response = Pending
    /\ DiffIdle
    /\ HunkIdle
    /\ OpencodeIdle
    /\ StoreIdle
    /\ CommentIdle
    /\ RetryIdle
    /\ CacheIdle
    /\ ChatIdle

CallValidatePRNumber ==
    /\ prResult = Pending
    /\ prResult' = validatePRNumber(prValue)
    /\ UNCHANGED <<prValue, prShape, reqBody, pathResult, editorPc, command, response,
                   nonValidationVars>>

SpecPRNumber == PRInit /\ [][CallValidatePRNumber]_vars

(***************************************************************************)
(* C14                                                                     *)
(***************************************************************************)
\* the integer the argument begins with, as a set: empty when it begins with
\* none
IntegerPrefix ==
    IF prValue.t = "number" THEN {prValue.n}
    ELSE IF prValue.t = "string" /\ prShape.digits # <<>>
    THEN {IF prShape.sign = <<"-">> THEN 0 - NumberOf(prShape.digits)
          ELSE NumberOf(prShape.digits)}
    ELSE {}

\* C14: validatePRNumber returns the base-10 integer its argument begins with
\* when there is one and it lies in 1..999999, throws Error('Invalid PR
\* number') for every other argument, and never returns a value outside
\* 1..999999.
C14_ValidatePRNumber ==
    prResult # Pending =>
        /\ \A n \in IntegerPrefix : n \in 1..999999 => prResult = Return(n)
        /\ (\A n \in IntegerPrefix : n \notin 1..999999) =>
               prResult = Throw("Invalid PR number")
        /\ prResult.kind = "return" => prResult.value \in 1..999999

\* '999999' followed by other characters has been accepted as 999999
C14_Witness ==
    /\ prResult = Return(999999)
    /\ prValue.t = "string"
    /\ prShape.rest = <<"a", "b", "c">>

(***************************************************************************)
(* POST /api/open-in-editor (the router printed in tailwind.config.js)     *)
(***************************************************************************)
\* repoRoot.trim(), the answer of 'git rev-parse --show-toplevel'
RepoRoot == <<"/", "r">>

\* validatedLine ? `:${validatedLine}:1` : ''
lineArg(validatedLine) ==
    IF validatedLine = JSUndefined \/ validatedLine.n = 0 THEN <<>>
    ELSE <<":">> \o NatToString(validatedLine.n) \o <<":", "1">>

\* `code --goto "${absolutePath}${lineArg}"`
commandFor(validatedPath, validatedLine) ==
    <<"c", "o", "d", "e", " ", "-", "-", "g", "o", "t", "o", " ", "\"">>
    \o RepoRoot \o <<"/">> \o validatedPath.s \o lineArg(validatedLine) \o <<"\"">>

Response(status, body) == [kind |-> "response", status |-> status, body |-> body]

\* error.message.includes('Invalid'), for the messages the validators throw
IncludesInvalid(msg) ==
    msg \in {"Invalid file path", "Invalid file path: directory traversal not allowed",
             "Invalid file path: null bytes not allowed", "Invalid PR number"}

\* the catch clause of the handler, for an error with the message msg
catchResponse(msg) ==
    IF IncludesInvalid(msg) THEN Response(400, msg)
    ELSE IF msg = "command not found"
    THEN Response(500, "VSCode CLI not found. Please install VSCode command line tools.")
    ELSE Response(500, "Failed to open file in editor")

\* longest short path of the inputs, in characters
MaxPathChars == 3

\* the bodies of the requests: short paths over a few characters, paths at the
\* length limit, values that are no strings; a few line values
EditorBodies ==
    LET short == UNION {[1..k -> {"a", ".", "/", NUL, "\"", "$", ";", "\\"}] :
                        k \in 0..MaxPathChars}
        run(n) == [i \in 1..n |-> "a"]
        long == {run(MaxPathLength), run(MaxPathLength + 1),
                 run(MaxPathLength - 1) \o <<NUL>>, run(MaxPathLength) \o <<NUL>>,
                 <<".", ".">> \o run(MaxPathLength)}
    IN  [filePath : {JSUndefined, JSNull, JSNumber(0), JSNumber(5)}
                    \cup {JSString(s) : s \in short \cup long},
         line : {JSUndefined, JSNumber(0), JSNumber(12), JSNumber(MaxLineNumber + 1),
                 JSString(<<"7", ";", "a">>)}]

EditorInit ==
    /\ reqBody \in EditorBodies
    /\ pathResult = Pending
    /\ editorPc = "start"
    /\ command = Null
    /\ response = Pending
    /\ prValue = JSUndefined
    /\ prShape = Null
    /\ prResult = Pending
    /\ DiffIdle
    /\ HunkIdle
    /\ OpencodeIdle
    /\ StoreIdle
    /\ CommentIdle
    /\ RetryIdle
    /\ CacheIdle
    /\ ChatIdle

\* a call of validateFilePath on the path of the request
CallValidateFilePath ==
    /\ pathResult = Pending
    /\ pathResult' = validateFilePath(reqBody.filePath)
    /\ UNCHANGED <<reqBody, editorPc, command, response, prValue, prShape, prResult,
                   nonValidationVars>>

\* the handler up to its first await
OpenInEditor ==
    /\ editorPc = "start"
    /\ IF Falsy(reqBody.filePath)
       THEN editorPc' = "sent" /\ response' = Response(400, "filePath is required")
       ELSE LET v == validateFilePath(reqBody.filePath)
            IN  IF v.kind = "throw"
                THEN editorPc' = "sent" /\ response' = catchResponse(v.message)
                ELSE editorPc' = "root" /\ UNCHANGED response
    /\ UNCHANGED <<reqBody, pathResult, command, prValue, prShape, prResult,
                   nonValidationVars>>

\* 'git rev-parse --show-toplevel' has ended: the command is built and handed
\* to the shell, or the error is caught
RevParseDone ==
    /\ editorPc = "root"
    /\ \/ /\ editorPc' = "exec"
          /\ command' = commandFor(reqBody.filePath, validateLineNumber(reqBody.line))
          /\ UNCHANGED response
       \/ /\ editorPc' = "sent"
          /\ response' = catchResponse("Command failed")
          /\ UNCHANGED command
    /\ UNCHANGED <<reqBody, pathResult, prValue, prShape, prResult, nonValidationVars>>

\* the command has ended
ExecDone ==
    /\ editorPc = "exec"
    /\ editorPc' = "sent"
    /\ \/ response' = Response(200, "success")
       \/ \E msg \in {"command not found", "Command failed"} : response' = catchResponse(msg)
    /\ UNCHANGED <<reqBody, pathResult, command, prValue, prShape, prResult,
                   nonValidationVars>>

EditorNext == CallValidateFilePath \/ OpenInEditor \/ RevParseDone \/ ExecDone

SpecEditor == EditorInit /\ [][EditorNext]_vars

(***************************************************************************)
(* C13                                                                     *)
(***************************************************************************)
\* the path of the request and what is wrong with it
PathArg == reqBody.filePath
PathIsString == PathArg.t = "string"
PathEmpty == ~PathIsString \/ PathArg.s = <<>>
PathTraversal ==
    PathIsString /\ \E i \in 1..(Len(PathArg.s) - 1) : PathArg.s[i] = "." /\ PathArg.s[i + 1] = "."
PathAbsolute == PathIsString /\ PathArg.s # <<>> /\ PathArg.s[1] = "/"
PathTooLong == PathIsString /\ Len(PathArg.s) > 1000
PathHasNUL == PathIsString /\ \E i \in 1..Len(PathArg.s) : PathArg.s[i] = NUL
PathAcceptable ==
    ~PathEmpty /\ ~PathTraversal /\ ~PathAbsolute /\ ~PathTooLong /\ ~PathHasNUL

StartsInvalidFilePath(msg) ==
    msg \in {"Invalid file path", "Invalid file path: directory traversal not allowed",
             "Invalid file path: null bytes not allowed"}

\* C13: validateFilePath(p) returns p unchanged exactly when p is a non-empty
\* string with no '..', no leading '/', at most 1000 characters and no NUL;
\* otherwise it throws, with a message that starts 'Invalid file path' when
\* the path is empty, a traversal, absolute or holds a NUL and is not over-long,
\* and 'File path too long' when being over-long is all that is wrong with it;
\* a path with several faults gets the message of one of them.
C13_ValidateFilePath ==
    pathResult # Pending =>
        /\ pathResult = Return(PathArg) <=> PathAcceptable
        /\ ~PathAcceptable =>
               /\ pathResult.kind = "throw"
               /\ StartsInvalidFilePath(pathResult.message) =>
                      PathEmpty \/ PathTraversal \/ PathAbsolute \/ PathHasNUL
               /\ ~StartsInvalidFilePath(pathResult.message) =>
                      pathResult.message = "File path too long" /\ PathTooLong

\* a path of exactly 1000 characters has been returned, and one of 1001
\* characters is refused in another run
C13_Witness ==
    /\ PathIsString
    /\ Len(PathArg.s) = 1000
    /\ pathResult = Return(PathArg)

(***************************************************************************)
(* C12                                                                     *)
(***************************************************************************)
\* How /bin/sh reads a command line of the characters used here: ' ' ends a
\* word and ';' a command outside quotes, '"' opens and closes a quoted part,
\* '\' takes the next character literally (inside quotes only before '"', '$'
\* and '\'), '$' starts an expansion; the back quote is left out.  st holds the mode, the word
\* being read, the words of the command being read, the commands read and
\* whether an expansion was met; ok is FALSE for a quote that is never closed.
\* A run of other characters is taken in one step.
RECURSIVE ShellRead(_, _, _)
ShellRead(cmd, i, st) ==
    LET endWord(t) == IF t.has THEN [t EXCEPT !.words = Append(@, t.cur),
                                               !.cur = <<>>, !.has = FALSE]
                      ELSE t
        endCommand(t) == LET u == endWord(t)
                         IN  IF u.words = <<>> THEN u
                             ELSE [u EXCEPT !.commands = Append(@, u.words), !.words = <<>>]
        put(t, c) == [t EXCEPT !.cur = Append(@, c), !.has = TRUE]
    IN  IF i > Len(cmd)
        THEN [ok |-> ~st.dq, commands |-> endCommand(st).commands, expansion |-> st.expansion]
        ELSE LET c == cmd[i]
                 escaped == /\ c = "\\"
                            /\ i < Len(cmd)
                            /\ ~st.dq \/ cmd[i + 1] \in {"\"", "$", "\\"}
             IN  IF escaped THEN ShellRead(cmd, i + 2, put(st, cmd[i + 1]))
                 ELSE IF c = "\"" THEN ShellRead(cmd, i + 1, [st EXCEPT !.dq = ~@, !.has = TRUE])
                 ELSE IF c = "$"
                 THEN ShellRead(cmd, i + 1, [put(st, c) EXCEPT !.expansion = TRUE])
                 ELSE IF ~st.dq /\ c = " " THEN ShellRead(cmd, i + 1, endWord(st))
                 ELSE IF ~st.dq /\ c = ";" THEN ShellRead(cmd, i + 1, endCommand(st))
                 ELSE LET stops == {j \in (i + 1)..Len(cmd) :
                                       cmd[j] \in {" ", ";", "\"", "$", "\\"}}
                          j == IF stops = {} THEN Len(cmd) + 1 ELSE Min(stops)
                      IN  ShellRead(cmd, j, [st EXCEPT !.cur = @ \o SubSeq(cmd, i, j - 1),
                                                       !.has = TRUE])

ShellParse(cmd) ==
    ShellRead(cmd, 1, [dq |-> FALSE, cur |-> <<>>, has |-> FALSE, words |-> <<>>,
                       commands |-> <<>>, expansion |-> FALSE])

\* the one command the handler means to run
IntendedCommand ==
    <<<< <<"c", "o", "d", "e">>, <<"-", "-", "g", "o", "t", "o">>,
         RepoRoot \o <<"/">> \o PathArg.s \o lineArg(validateLineNumber(reqBody.line)) >>>>

\* C12 (as claimed): whenever the handler hands a command to the shell, the
\* shell reads it as the single command code --goto <repoRoot>/<filePath>
\* [:<line>:1], the path staying inside the quoted argument: no accepted path
\* ends the quoting or starts an expansion.
C12_NoInjection ==
    command # Null =>
        ShellParse(command) = [ok |-> TRUE, commands |-> IntendedCommand, expansion |-> FALSE]

(***************************************************************************)
(* C15                                                                     *)
(***************************************************************************)
\* the section the file pattern selects for the arguments, Null when there is
\* none or an argument is empty
SelectedSection ==
    IF fullDiff = <<>> \/ filePath = <<>> THEN Null
    ELSE matchFilePattern(fullDiff, PathAtoms(escapedPath(filePath)))

\* the lines of the hunks of the selected section, hunk headers left out
SectionHunkLines ==
    SelectSeq(HunkBody(split(SelectedSection.text)), LAMBDA l : ~startsWith(l, LitHunk))

\* a hunk line without its marker; a context line keeps its text when the
\* leading ' ' is missing
Unmarked(l) ==
    IF l # <<>> /\ l[1] \in {"-", "+", " "} THEN SubSeq(l, 2, Len(l)) ELSE l

SideOf(other) ==
    LET keep == SelectSeq(SectionHunkLines, LAMBDA l : l = <<>> \/ l[1] # other)
    IN  join([k \in 1..Len(keep) |-> Unmarked(keep[k])])

\* C15 (as claimed): for a found section that is neither binary nor deleted,
\* parseDiffForFile returns as 'original' the hunk lines that are context or
\* '-' lines and as 'modified' those that are context or '+' lines, in order
\* and without their markers; it returns null when no section is found or an
\* argument is empty.
C15_OriginalAndModified ==
    forFile # Pending =>
        /\ SelectedSection = Null => forFile = Null
        /\ /\ SelectedSection # Null
           /\ ~includes(SelectedSection.text, LitBinaryFiles)
           /\ ~includes(SelectedSection.text, LitDeletedFileMode)
           => forFile = [kind |-> "value", original |-> SideOf("+"), modified |-> SideOf("-")]

(***************************************************************************)
(* Specification of repeated calls of parseDiffWithColors.  The function   *)
(* is synchronous, so calls follow one another; the locals keep what the   *)
(* last call left in them until the next call sets them.                   *)
(***************************************************************************)
\* longest run of calls
MaxCalls == 3

\* the arguments of the calls: a line before the first hunk, a hunk with a
\* deleted and a context line, a rename without hunks, a binary section, a
\* path that is not in the diff, an empty diff
CallInputs ==
    {<<join(<<HeaderRP, BareLine, HunkLine, AddLine>>), PathP>>,
     <<join(<<HeaderRP, HunkLine, DelLine, CtxLine>>), PathP>>,
     <<join(<<HeaderRP, RenameFromLine, RenameToLine>>), PathP>>,
     <<join(<<HeaderRP, BinaryLine>>), PathP>>,
     <<join(<<HeaderRP, HunkLine>>), PathR>>,
     <<(<<>>), PathP>>}

CallsInit ==
    /\ fullDiff = <<>>
    /\ filePath = <<>>
    /\ pc = "idle"
    /\ fileDiff = <<>>
    /\ lines = <<>>
    /\ idx = 1
    /\ contentLines = <<>>
    /\ decorations = <<>>
    /\ lineNumber = 0
    /\ inHunk = FALSE
    /\ colors = Pending
    /\ forFile = Pending
    /\ callLog = <<>>
    /\ HunkIdle
    /\ ValidationIdle
    /\ OpencodeIdle
    /\ StoreIdle
    /\ CommentIdle
    /\ RetryIdle
    /\ CacheIdle
    /\ ChatIdle

\* parseDiffWithColors is called
StartCall ==
    /\ pc \in {"idle", "done"}
    /\ Len(callLog) < MaxCalls
    /\ \E in \in CallInputs : fullDiff' = in[1] /\ filePath' = in[2]
    /\ pc' = "start"
    /\ colors' = Pending
    /\ UNCHANGED <<fileDiff, lines, idx, contentLines, decorations, lineNumber, inHunk,
                   forFile, nonDiffVars>>

\* a step of the call; a return is entered in the log
CallStep ==
    /\ Begin \/ Step \/ Finish
    /\ callLog' = IF pc' = "done"
                  THEN Append(callLog, [fullDiff |-> fullDiff, filePath |-> filePath,
                                        result |-> colors'])
                  ELSE callLog
    /\ UNCHANGED outerVars

CallsNext == StartCall \/ CallStep

SpecCalls == CallsInit /\ [][CallsNext]_vars

(***************************************************************************)
(* C16                                                                     *)
(***************************************************************************)
\* C16: any two calls of parseDiffWithColors with the same arguments, whatever
\* was called between them, return the same content and the same decorations.
C16_Deterministic ==
    \A i, j \in 1..Len(callLog) :
        /\ callLog[i].fullDiff = callLog[j].fullDiff
        /\ callLog[i].filePath = callLog[j].filePath
        => callLog[i].result = callLog[j].result

\* the same arguments were rendered, with decorations, before and after a call
\* on other arguments that left the hunk flag set
C16_Witness ==
    /\ Len(callLog) = 3
    /\ callLog[1].fullDiff = callLog[3].fullDiff
    /\ callLog[1].filePath = callLog[3].filePath
    /\ callLog[2].fullDiff # callLog[1].fullDiff
    /\ callLog[2].result.kind = "value"
    /\ callLog[2].result.decorations # <<>>
    /\ callLog[3].result.kind = "value"
    /\ callLog[3].result.decorations # <<>>
    /\ callLog[3].fullDiff = join(<<HeaderRP, BareLine, HunkLine, AddLine>>)

(***************************************************************************)
(* The OpenCode manager (packages/server/src/services/opencode.ts).  A     *)
(* task is one call of startServer or cleanup; between two awaits a task   *)
(* runs without interruption, and what follows the settling of a promise   *)
(* is run before the next event is taken.  The death of a child and its    *)
(* 'exit' event are one step.                                              *)
(***************************************************************************)
\* most calls of startServer and cleanup in a run
MaxTasks == 3

Task(op, at, child) == [op |-> op, at |-> at, child |-> child, result |-> NoPort]

\* child.kill(sig): the signal reaches a live child, and then child.killed is
\* set; nothing happens to a child that is gone
Kill(ch, c, sig) ==
    IF ch[c].alive THEN [ch EXCEPT ![c].killed = TRUE, ![c].signals = @ \cup {sig}]
    ELSE ch

\* where a task stands once a cleanup it awaited is over: cleanup returns,
\* startServer throws
AfterCleanup(op) == IF op = "cleanup" THEN "returned" ELSE "thrown"

\* cleanup() up to its await, called by a task with the operation op: with no
\* tracked child it returns at once, else it sends SIGTERM and waits for the
\* 'exit' of the tracked child or for the 2 s timer
CleanupBegins(op) ==
    IF serverProcess = NoChild
    THEN /\ tasks' = Append(tasks, Task(op, AfterCleanup(op), NoChild))
         /\ UNCHANGED children
    ELSE /\ tasks' = Append(tasks, Task(op, "wait", serverProcess))
         /\ children' = Kill(children, serverProcess, "SIGTERM")

\* the same for the task t that is already there
CleanupBeginsIn(t) ==
    IF serverProcess = NoChild
    THEN /\ tasks' = [tasks EXCEPT ![t].at = AfterCleanup(tasks[t].op)]
         /\ UNCHANGED children
    ELSE /\ tasks' = [tasks EXCEPT ![t].at = "wait", ![t].child = serverProcess]
         /\ children' = Kill(children, serverProcess, "SIGTERM")

\* startServer is called (CLI start-up, POST /api/opencode/chat)
StartServer ==
    /\ Len(tasks) < MaxTasks
    /\ tasks' = Append(tasks,
                       IF serverProcess # NoChild
                       THEN [Task("startServer", "returned", NoChild) EXCEPT !.result = serverUrl]
                       ELSE Task("startServer", "installed", NoChild))
    /\ UNCHANGED <<serverProcess, serverUrl, serverPort, children, nonOpencodeVars>>

\* isInstalled() has answered
InstalledDone ==
    \E t \in 1..Len(tasks) :
        /\ tasks[t].at = "installed"
        /\ \E installed \in BOOLEAN :
               tasks' = [tasks EXCEPT ![t].at = IF installed THEN "port" ELSE "thrown"]
        /\ UNCHANGED <<serverProcess, serverUrl, serverPort, children, nonOpencodeVars>>

\* findAvailablePort() has answered with a port: the child is spawned and
\* tracked, and the readiness poll begins
PortFound ==
    \E t \in 1..Len(tasks), port \in {4096, 8191} :
        /\ tasks[t].at = "port"
        /\ children' = Append(children, [alive |-> TRUE, killed |-> FALSE,
                                         signals |-> {}, port |-> port])
        /\ serverProcess' = Len(children) + 1
        /\ serverPort' = port
        /\ serverUrl' = port
        /\ tasks' = [tasks EXCEPT ![t].at = "ready", ![t].child = Len(children) + 1]
        /\ UNCHANGED nonOpencodeVars

\* findAvailablePort() has thrown NO_PORT: the catch clause calls cleanup
PortNotFound ==
    \E t \in 1..Len(tasks) :
        /\ tasks[t].at = "port"
        /\ CleanupBeginsIn(t)
        /\ UNCHANGED <<serverProcess, serverUrl, serverPort, nonOpencodeVars>>

\* waitForServerReady() has answered true: startServer returns this.serverUrl
ServerReady ==
    \E t \in 1..Len(tasks) :
        /\ tasks[t].at = "ready"
        /\ tasks' = [tasks EXCEPT ![t].at = "returned", ![t].result = serverUrl]
        /\ UNCHANGED <<serverProcess, serverUrl, serverPort, children, nonOpencodeVars>>

\* waitForServerReady() has answered false after 10 s: cleanup is called, and
\* once it is over STARTUP_TIMEOUT is thrown (the cleanup of the catch clause
\* then finds no tracked child)
ServerNotReady ==
    \E t \in 1..Len(tasks) :
        /\ tasks[t].at = "ready"
        /\ CleanupBeginsIn(t)
        /\ UNCHANGED <<serverProcess, serverUrl, serverPort, nonOpencodeVars>>

\* cleanup is called from outside startServer (the 'error' handler of a
\* child, the handlers of SIGINT and SIGTERM)
Cleanup ==
    /\ Len(tasks) < MaxTasks
    /\ CleanupBegins("cleanup")
    /\ UNCHANGED <<serverProcess, serverUrl, serverPort, nonOpencodeVars>>

\* the child c exits: the 'exit' handler of startServer clears the fields,
\* and every cleanup that waits for c goes on, clears the fields and ends
ChildExit ==
    \E c \in 1..Len(children) :
        /\ children[c].alive
        /\ children' = [children EXCEPT ![c].alive = FALSE]
        /\ serverProcess' = NoChild
        /\ serverUrl' = NoPort
        /\ serverPort' = NoPort
        /\ tasks' = [t \in 1..Len(tasks) |->
                        IF tasks[t].at = "wait" /\ tasks[t].child = c
                        THEN [tasks[t] EXCEPT !.at = AfterCleanup(tasks[t].op)]
                        ELSE tasks[t]]
        /\ UNCHANGED nonOpencodeVars

\* the 2 s timer of the cleanup of task t fires: SIGKILL for the tracked
\* child unless its killed flag is set; then cleanup goes on, clears the
\* fields and ends
TimerFires ==
    \E t \in 1..Len(tasks) :
        /\ tasks[t].at = "wait"
        /\ children' = IF serverProcess # NoChild /\ ~children[serverProcess].killed
                       THEN Kill(children, serverProcess, "SIGKILL")
                       ELSE children
        /\ serverProcess' = NoChild
        /\ serverUrl' = NoPort
        /\ serverPort' = NoPort
        /\ tasks' = [tasks EXCEPT ![t].at = AfterCleanup(tasks[t].op)]
        /\ UNCHANGED nonOpencodeVars

OpencodeInit == OpencodeIdle /\ DiffIdle /\ HunkIdle /\ ValidationIdle /\ StoreIdle /\ CommentIdle /\ RetryIdle /\ CacheIdle /\ ChatIdle

OpencodeNext ==
    \/ StartServer \/ InstalledDone \/ PortFound \/ PortNotFound \/ ServerReady
    \/ ServerNotReady \/ Cleanup \/ ChildExit \/ TimerFires

SpecOpencode == OpencodeInit /\ [][OpencodeNext]_vars

(***************************************************************************)
(* C17                                                                     *)
(***************************************************************************)
\* the manager's fields
Tracked == <<serverProcess, serverUrl, serverPort>>

\* a step in which a call of startServer or cleanup is made
CallMade(op) == Len(tasks') > Len(tasks) /\ tasks'[Len(tasks')].op = op

C17_Step ==
    /\ Len(children') > Len(children) => serverProcess = NoChild
    /\ CallMade("startServer") /\ serverProcess # NoChild =>
           /\ tasks'[Len(tasks')].at = "returned"
           /\ tasks'[Len(tasks')].result = serverUrl
           /\ children' = children

\* C17 (as claimed): in every interleaving of startServer calls no child is
\* spawned while a server is tracked, and a call made while a server is
\* tracked returns the existing URL without spawning.
C17_AtMostOneChild == [][C17_Step]_vars

(***************************************************************************)
(* C18                                                                     *)
(***************************************************************************)
C18_Step ==
    /\ \A t \in 1..Len(tasks') :
           /\ (t > Len(tasks) \/ tasks[t].at # "wait") /\ tasks'[t].at = "wait" =>
                  "SIGTERM" \in children'[tasks'[t].child].signals
           /\ t <= Len(tasks) /\ tasks[t].at = "wait" /\ tasks'[t].at # "wait" =>
                  /\ Tracked' = <<NoChild, NoPort, NoPort>>
                  /\ children'[tasks[t].child].alive =>
                         "SIGKILL" \in children'[tasks[t].child].signals
    /\ CallMade("cleanup") /\ serverProcess = NoChild =>
           /\ tasks'[Len(tasks')].at = "returned"
           /\ children' = children
           /\ Tracked' = Tracked

\* C18 (as claimed): cleanup of a tracked server sends SIGTERM first; when the
\* wait ends with the child still there (the 2 s timer), SIGKILL has been sent
\* to it; when cleanup is over the fields are null; cleanup with no tracked
\* server sends no signal and changes nothing.
C18_TermThenKill == [][C18_Step]_vars

(***************************************************************************)
(* C19                                                                     *)
(***************************************************************************)
C19_Step ==
    \A c \in 1..Len(children) :
        /\ children[c].alive
        /\ ~children'[c].alive
        /\ serverProcess \notin {NoChild, c}
        => Tracked' = Tracked

\* C19 (as claimed): the exit of a child that is not the tracked one leaves
\* serverProcess, serverUrl and serverPort of the tracked server as they are.
C19_StaleExitIgnored == [][C19_Step]_vars

----
(***************************************************************************)
(* The UI store: selectPR and clearPR of web/src/context/AppContext.tsx    *)
(* over api.prs.get / diff / comments of web/src/lib/api.ts.               *)
(*                                                                         *)
(* One action is one task of the event loop: a call made by the user, the  *)
(* answer to a request, a failure of the network, a timer.                 *)
(* The promise reactions that the task makes ready  *)
(* (the catch block of fetchWithRetry, Promise.all, the rest of selectPR)  *)
(* run in the same action, as microtasks do.  The requests of a call whose *)
(* Promise.all has settled go on in the browser but nothing waits for      *)
(* them: they leave the model when the call settles.                       *)
(***************************************************************************)

\* calls of selectPR
MaxSelects == 2

\* the errors a request is rejected with; statusCode 0 stands for undefined
Thrown(name) == [name |-> name, statusCode |-> 0]
APIError(statusCode) == [name |-> "APIError", statusCode |-> statusCode]

\* the responses of the server: status, and whether the body is JSON (the
\* rate limiter answers 429 with a plain text)
Responses ==
    {[status |-> 200, json |-> TRUE], [status |-> 404, json |-> TRUE],
     [status |-> 500, json |-> TRUE], [status |-> 429, json |-> FALSE]}

\* what the server answers for pull request number on one of the three endpoints
Payload(endpoint, number) == [kind |-> endpoint, number |-> number]

\* isRetryableError without its first test
isRetryableError_abortRetried(error, statusCode) ==
    IF statusCode # 0 /\ statusCode >= 400 /\ statusCode < 500 THEN FALSE
    ELSE IF statusCode # 0 /\ statusCode >= 500 THEN TRUE
    ELSE IF statusCode = 0 THEN TRUE
    ELSE FALSE

isRetryableError(error, statusCode) ==
    IF error.name = "AbortError" THEN FALSE
    ELSE IF statusCode # 0 /\ statusCode >= 400 /\ statusCode < 500 THEN FALSE
    ELSE IF statusCode # 0 /\ statusCode >= 500 THEN TRUE
    ELSE IF statusCode = 0 THEN TRUE
    ELSE FALSE

maxRetries == 3

\* a request of fetchWithRetry: where it is, in which attempt, and what it holds
Request(st, attempt, info) == [st |-> st, attempt |-> attempt, info |-> info]

\* the catch block of fetchWithRetry and the end of its loop
caught(attempt, error) ==
    LET statusCode == IF error.name = "APIError" THEN error.statusCode ELSE 0
    IN  IF ~isRetryableError(error, statusCode) THEN Request("rejected", attempt, error)
        ELSE IF attempt < maxRetries - 1 THEN Request("sleep", attempt, 1000 * 2 ^ attempt)
        ELSE Request("rejected", attempt, error)

signalAborted_never(sel) == FALSE

\* signal.aborted as fetch reads it
signalAborted(sel) == sel.aborted

\* fn(): fetchAPI to its first await; fetch rejects at once on an aborted signal
fetchAPI(sel, attempt) ==
    IF signalAborted(sel) THEN caught(attempt, Thrown("AbortError"))
    ELSE Request("fetch", attempt, Null)

\* what Promise.all of a call has come to
Outcome(sel) ==
    LET rejected == {r \in 1..3 : sel.reqs[r].st = "rejected"}
    IN  IF sel.pc # "waiting" THEN "none"
        ELSE IF rejected # {}
             THEN IF sel.reqs[CHOOSE r \in rejected : TRUE].info.name = "AbortError"
                  THEN "cancelled" ELSE "failed"
        ELSE IF \A r \in 1..3 : sel.reqs[r].st = "resolved" THEN "dispatched"
        ELSE "none"

\* the call after the rest of selectPR has run, if Promise.all has settled
Settled(sel) ==
    IF Outcome(sel) = "none" THEN sel
    ELSE [sel EXCEPT !.pc = Outcome(sel), !.reqs = <<>>]

\* the reducer's state after the rest of selectPR has run: the three
\* dispatches of the try block or the one of the catch block, then finally
Dispatched(st, sel) ==
    LET rejected == {r \in 1..3 : sel.reqs[r].st = "rejected"}
    IN  CASE Outcome(sel) = "none" -> st
          [] Outcome(sel) = "cancelled" -> [st EXCEPT !.loading = FALSE]
          [] Outcome(sel) = "failed" ->
                [st EXCEPT !.error = sel.reqs[CHOOSE r \in rejected : TRUE].info,
                           !.loading = FALSE]
          [] Outcome(sel) = "dispatched" ->
                [st EXCEPT !.currentPR = sel.reqs[1].info,
                           !.currentDiff = sel.reqs[2].info,
                           !.currentComments = sel.reqs[3].info,
                           !.loading = FALSE]

\* controller.abort(): the fetches and body readings under way are rejected
abort(sel) ==
    [sel EXCEPT !.aborted = TRUE,
                !.reqs = [r \in DOMAIN sel.reqs |->
                             IF sel.reqs[r].st = "fetch"
                             THEN caught(sel.reqs[r].attempt, Thrown("AbortError"))
                             ELSE sel.reqs[r]]]

SelectPR ==
    /\ Len(selects) < MaxSelects
    /\ \E number \in {1, 2} :
        LET current == prDetailAbortController
            new == [number |-> number, aborted |-> FALSE, pc |-> "waiting", reqs |-> <<>>]
            started == [new EXCEPT !.reqs = [r \in 1..3 |-> fetchAPI(new, 0)]]
            begun == [state EXCEPT !.loading = TRUE, !.error = Null]
        IN  /\ prDetailAbortController' = Len(selects) + 1
            /\ IF current = NoCall
               THEN /\ selects' = Append(selects, started)
                    /\ state' = begun
               ELSE /\ selects' = Append([selects EXCEPT ![current] = Settled(abort(@))], started)
                    /\ state' = Dispatched(begun, abort(selects[current]))
    /\ UNCHANGED nonStoreVars

clearPR ==
    /\ state' = [state EXCEPT !.currentPR = Null, !.currentDiff = Null,
                              !.currentComments = EmptyList]
    /\ state' # state
    /\ UNCHANGED <<prDetailAbortController, selects, nonStoreVars>>

\* request r of call c moves to req, and what follows from it follows
Moves(c, r, req) ==
    LET sel == [selects[c] EXCEPT !.reqs[r] = req]
    IN  /\ selects' = [selects EXCEPT ![c] = Settled(sel)]
        /\ state' = Dispatched(state, sel)
        /\ UNCHANGED <<prDetailAbortController, nonStoreVars>>

Waiting(c, r, st) ==
    /\ c \in 1..Len(selects)
    /\ selects[c].pc = "waiting"
    /\ selects[c].reqs[r].st = st

\* fetch resolves with a response and response.json() settles; fetchAPI
\* returns the value or throws.  The two awaits of fetchAPI are one step:
\* between them nothing but abort() reaches the request, and abort() rejects
\* the one as it rejects the other.
Responds ==
    \E c \in 1..Len(selects), r \in 1..3, response_ \in Responses :
        /\ Waiting(c, r, "fetch")
        /\ LET attempt == selects[c].reqs[r].attempt
               ok == response_.status >= 200 /\ response_.status <= 299
               endpoint == <<"pr", "diff", "comments">>[r]
           IN  Moves(c, r,
                   IF ~response_.json THEN caught(attempt, Thrown("SyntaxError"))
                   ELSE IF ~ok THEN caught(attempt, APIError(response_.status))
                   \* fetchWithRetry returns: its loop and attempt are over
                   ELSE Request("resolved", 0, Payload(endpoint, selects[c].number)))

\* fetch rejects: the network failed
NetworkFails ==
    \E c \in 1..Len(selects), r \in 1..3 :
        /\ Waiting(c, r, "fetch")
        /\ Moves(c, r, caught(selects[c].reqs[r].attempt, Thrown("TypeError")))

\* the timer of sleep fires; the loop of fetchWithRetry calls fn again
SleepOver ==
    \E c \in 1..Len(selects), r \in 1..3 :
        /\ Waiting(c, r, "sleep")
        /\ Moves(c, r, fetchAPI(selects[c], selects[c].reqs[r].attempt + 1))

StoreInit == StoreIdle /\ DiffIdle /\ HunkIdle /\ ValidationIdle /\ OpencodeIdle /\ CommentIdle /\ RetryIdle /\ CacheIdle /\ ChatIdle

StoreNext ==
    \/ SelectPR
    \/ clearPR
    \/ Responds
    \/ NetworkFails
    \/ SleepOver

SpecStore == StoreInit /\ [][StoreNext]_vars

\* ---- C20

\* the three values of the store that describe the pull request shown
Shown(st) == <<st.currentPR, st.currentDiff, st.currentComments>>

\* the three responses of the server for pull request number
ResponsesFor(number) ==
    <<Payload("pr", number), Payload("diff", number), Payload("comments", number)>>

\* call c leaves selectPR in this step, in the way named
Leaves(c, how) ==
    /\ c \in 1..Len(selects)
    /\ selects[c].pc = "waiting"
    /\ selects'[c].pc = how

C20_Step ==
    \* responses are dispatched for the most recent call only, never for one
    \* whose signal has been aborted
    /\ \A c \in 1..Len(selects) :
          Leaves(c, "dispatched") => c = Len(selects') /\ ~selects'[c].aborted
    \* the three values change together: to the three responses of the most
    \* recent call, or to nothing (clearPR)
    /\ Shown(state') # Shown(state) =>
          \/ Shown(state') = <<Null, Null, EmptyList>>
          \/ /\ selects' # <<>>
             /\ Leaves(Len(selects'), "dispatched")
             /\ Shown(state') = ResponsesFor(selects'[Len(selects')].number)
    \* so they describe one pull request
    /\ \/ Shown(state') = <<Null, Null, EmptyList>>
       \/ \E number \in {1, 2} : Shown(state') = ResponsesFor(number)
    \* a call whose signal has been aborted sets no error
    /\ \A c \in 1..Len(selects) :
          selects'[c].aborted => ~Leaves(c, "failed")
    /\ state'.error \notin {Null, state.error} =>
          \E c \in 1..Len(selects) : Leaves(c, "failed") /\ ~selects'[c].aborted

\* C20: when selectPR(b) is called while selectPR(a) is in flight (sleeping
\* between retries included), the responses of a are never dispatched;
\* currentPR, currentDiff and currentComments are only ever set together,
\* from the three responses of the most recent call of selectPR, so they
\* describe the same pull request; an aborted request never sets state.error.
C20_Cancellation == [][C20_Step]_vars

\* selectPR(b) was called while a request of selectPR(a) slept between two
\* attempts; the responses of b have been dispatched and a still sleeps
C20_Witness ==
    /\ Len(selects) = 2
    /\ selects[1].aborted
    /\ selects[1].pc = "waiting"
    /\ \E r \in 1..3 : selects[1].reqs[r].st = "sleep"
    /\ selects[1].number # selects[2].number
    /\ selects[2].pc = "dispatched"
    /\ Shown(state) = ResponsesFor(selects[2].number)

(***************************************************************************)
(* C24                                                                     *)
(***************************************************************************)
\* no shell command has been started: neither git rev-parse nor code
NoShellCommand == editorPc \in {"start", "sent"} /\ command = Null

\* a line value that is no line number: not 1..1000000, read as parseInt reads it
LineInvalid ==
    /\ reqBody.line # JSUndefined
    /\ LET num == parseInt(reqBody.line)
       IN  num.nan \/ num.n < 1 \/ num.n > 1000000

\* C24 (as claimed): when filePath is missing or refused by validateFilePath
\* (traversal, absolute, NUL, over 1000 characters) the handler answers 400 and
\* starts no shell command; a line value that is no line number is left out
\* of the command and the request is not refused for it.
C24_RejectedPath ==
    /\ ~PathAcceptable =>
          /\ NoShellCommand
          /\ response # Pending => response.status = 400
    /\ PathAcceptable /\ LineInvalid =>
          /\ command # Null => command = commandFor(PathArg, JSUndefined)
          /\ response # Pending => response.status # 400

(***************************************************************************)
(* C27                                                                     *)
(***************************************************************************)
\* the metadata lines of ls: those before its first hunk header
Metadata(ls) == SubSeq(ls, 1, FirstHunk(ls) - 1)

\* some line of ls holds the text of a file-level marker
HasMarkerText(ls) ==
    \/ HasText(ls, LitBinaryFiles)
    \/ HasText(ls, LitDeletedFileMode)
    \/ HasText(ls, LitNewFileMode)
    \/ HasText(ls, LitRenameFrom)
    \/ HasText(ls, LitRenameTo)

\* a fragment with a hunk whose metadata holds no marker and whose hunk body
\* holds the text of one
MarkerTextInBodyOnly ==
    /\ Found
    /\ HasHunk(FragmentLines)
    /\ ~HasMarkerText(Metadata(FragmentLines))
    /\ HasMarkerText(HunkBody(FragmentLines))

\* C27 (as claimed): the file-level classification depends on the metadata
\* lines before the first hunk header only.  A fragment whose metadata holds
\* no marker and whose hunk body holds the text 'Binary files', 'deleted file
\* mode', 'new file mode' or 'rename from' / 'rename to' is rendered as an
\* ordinary modified file: no placeholder, no banner, the display begins with
\* its first hunk header, and parseDiffForFile returns its two sides.
C27_ClassifiedByMetadata ==
    MarkerTextInBodyOnly =>
        /\ colors.kind = "value"
        /\ colors.content \notin {BinaryPlaceholder, DeletedPlaceholder}
        /\ \A k \in 1..Len(DisplayLines) : ~IsBannerLine(DisplayLines[k])
        /\ startsWith(DisplayLines[1], LitHunk)
        /\ forFile # Pending => forFile # Null

----
(***************************************************************************)
(* The comment ranges of MonacoDiff (components/diff/MonacoDiff.tsx):      *)
(* the memo commentLineRanges, the glyph effect and the scroll effect.     *)
(***************************************************************************)
\* comments on the selected file
MaxComments == 2

\* a list that has been computed
Value(items) == [kind |-> "value", items |-> items]

\* a || b
Or(a, b) == IF Falsy(a) THEN b ELSE a

\* the callback of fileComments.map
commentLineRange(comment) ==
    LET effectiveLine ==
            Or(Or(Or(comment.line, comment.originalLine), comment.position), JSNumber(1)).n
        hunkRange == IF comment.diffHunk # <<>> THEN parseDiffHunk(comment.diffHunk) ELSE Null
    IN  IF hunkRange # Null
        THEN [startLine |-> hunkRange.startLine,
              endLine |-> hunkRange.startLine + hunkRange.lineCount - 1]
        ELSE [startLine |-> effectiveLine, endLine |-> effectiveLine]

\* commentLineRanges.find(range => targetLine >= range.startLine && targetLine <= range.endLine),
\* as the position of the range found, 0 when none is
findCommentRange(ranges, line) ==
    LET found == {i \in 1..Len(ranges) :
                     line >= ranges[i].startLine /\ line <= ranges[i].endLine}
    IN  IF found = {} THEN 0 ELSE Min(found)

\* The comments of the inputs.  diffHunk is empty, or a hunk header written
\* from the pieces sh, with a new start of 0 or 7, no count or a count of 0
\* or 7, or with the new start missing; line, originalLine and position are
\* null or a line number.
Comments ==
    LET shapes == {sh \in HunkShapes :
                      /\ sh.pre = <<>> /\ sh.s1 = <<" ">> /\ sh.a = <<"1">> /\ sh.ob = <<>>
                      /\ sh.plus = <<" ", "+">> /\ sh.close = <<" ", "@", "@">>
                      /\ sh.suf = <<" ", "x">>
                      /\ Len(sh.c) <= 1 /\ Len(sh.od) \in {0, 2}}
        hunks == {[diffHunk |-> <<>>, shape |-> Null]}
                 \cup {[diffHunk |-> HunkText(sh), shape |-> sh] : sh \in shapes}
    IN  {[line |-> l, originalLine |-> o, position |-> p,
          diffHunk |-> h.diffHunk, shape |-> h.shape] :
            l \in {JSNull, JSNumber(3)}, o \in {JSNull, JSNumber(4)},
            p \in {JSNull, JSNumber(5)}, h \in hunks}

CommentInit ==
    /\ fileComments \in UNION {[1..k -> Comments] : k \in 0..MaxComments}
    /\ targetLine \in {JSNull, JSNumber(3), JSNumber(6), JSNumber(7), JSNumber(13)}
    /\ commentLineRanges = Pending
    /\ glyphDecorations = Pending
    /\ highlight = Pending
    /\ DiffIdle
    /\ HunkIdle
    /\ ValidationIdle
    /\ OpencodeIdle
    /\ StoreIdle
    /\ RetryIdle
    /\ CacheIdle
    /\ ChatIdle

\* useMemo(() => fileComments.map(...))
ComputeRanges ==
    /\ commentLineRanges = Pending
    /\ commentLineRanges' =
           Value([i \in 1..Len(fileComments) |-> commentLineRange(fileComments[i])])
    /\ UNCHANGED <<fileComments, targetLine, glyphDecorations, highlight, nonCommentVars>>

\* the effect that places the glyphs: one at the start line of each range
GlyphEffect ==
    /\ commentLineRanges # Pending
    /\ glyphDecorations = Pending
    /\ glyphDecorations' =
           Value([i \in 1..Len(commentLineRanges.items) |->
                     [startLineNumber |-> commentLineRanges.items[i].startLine,
                      endLineNumber |-> commentLineRanges.items[i].startLine]])
    /\ UNCHANGED <<fileComments, targetLine, commentLineRanges, highlight, nonCommentVars>>

\* the effect that scrolls to targetLine and flashes the range around it
ScrollEffect ==
    /\ commentLineRanges # Pending
    /\ highlight = Pending
    /\ ~Falsy(targetLine)
    /\ LET ranges == commentLineRanges.items
           found == findCommentRange(ranges, targetLine.n)
       IN  highlight' =
               IF found # 0
               THEN [startLineNumber |-> ranges[found].startLine,
                     endLineNumber |-> ranges[found].endLine]
               ELSE [startLineNumber |-> targetLine.n, endLineNumber |-> targetLine.n]
    /\ UNCHANGED <<fileComments, targetLine, commentLineRanges, glyphDecorations, nonCommentVars>>

CommentNext == ComputeRanges \/ GlyphEffect \/ ScrollEffect

SpecComments == CommentInit /\ [][CommentNext]_vars

(***************************************************************************)
(* C28                                                                     *)
(***************************************************************************)
\* the first of line, originalLine and position that is not null, 1 when all are
FirstPresent(comment) ==
    IF comment.line # JSNull THEN comment.line.n
    ELSE IF comment.originalLine # JSNull THEN comment.originalLine.n
    ELSE IF comment.position # JSNull THEN comment.position.n
    ELSE 1

\* the range the claim gives a comment
RangeExpected(comment) ==
    LET h == HunkExpected(comment.shape)
    IN  IF h # Null THEN [startLine |-> h.startLine, endLine |-> h.startLine + h.lineCount - 1]
        ELSE [startLine |-> FirstPresent(comment), endLine |-> FirstPresent(comment)]

\* C28 (as claimed): the range of every comment satisfies
\* 1 <= startLine <= endLine; it is [newStart, newStart + newCount - 1] when
\* diffHunk holds a hunk header, a new count or a new start of 0 included, and
\* [L, L] otherwise, L the first present of line, originalLine, position, or
\* 1; the flash highlight takes the range of a comment only when targetLine
\* lies inside it.
C28_CommentRanges ==
    /\ commentLineRanges # Pending =>
          \A i \in 1..Len(fileComments) :
              /\ commentLineRanges.items[i] = RangeExpected(fileComments[i])
              /\ 1 <= commentLineRanges.items[i].startLine
              /\ commentLineRanges.items[i].startLine <= commentLineRanges.items[i].endLine
    /\ highlight # Pending =>
          \/ highlight = [startLineNumber |-> targetLine.n, endLineNumber |-> targetLine.n]
          \/ \E i \in 1..Len(fileComments) :
                /\ highlight = [startLineNumber |-> commentLineRanges.items[i].startLine,
                                endLineNumber |-> commentLineRanges.items[i].endLine]
                /\ commentLineRanges.items[i].startLine <= targetLine.n
                /\ targetLine.n <= commentLineRanges.items[i].endLine

----
(***************************************************************************)
(* One call of fetchWithRetry(() => fetchAPI(endpoint, signal)), as        *)
(* api.health and api.prs.* make it (web/src/lib/api.ts).                  *)
(***************************************************************************)
\* what one call of fn came to: the status of the response (0 when fetch
\* was rejected) and the name of the error thrown ("none" when fn returned)
Answer(status, thrown) == [status |-> status, thrown |-> thrown]

\* fetchAPI from the response on: response.json() of a body that is no JSON
\* throws SyntaxError; a response that is not ok throws APIError
fetched(attempt, response_) ==
    IF ~response_.json THEN caught(attempt, Thrown("SyntaxError"))
    ELSE IF ~(response_.status >= 200 /\ response_.status <= 299)
         THEN caught(attempt, APIError(response_.status))
    ELSE Request("resolved", attempt, Payload("pr", 1))

\* the call moves to req, fn having come to answer
RetryMoves(req, answer) ==
    /\ retry' = req
    /\ answers' = Append(answers, answer)
    /\ waits' = IF req.st = "sleep" THEN Append(waits, req.info) ELSE waits

\* return await fn(), to the first await of fetchAPI
CallFn(attempt) ==
    LET req == fetchAPI([aborted |-> retrySignal = "aborted"], attempt)
    IN  /\ fnCalls' = fnCalls + 1
        /\ IF req.st = "fetch"
           THEN retry' = req /\ UNCHANGED <<answers, waits>>
           ELSE RetryMoves(req, Answer(0, "AbortError"))

RetryInit ==
    /\ retry = Request("idle", 0, Null)
    /\ retrySignal \in {"none", "live"}
    /\ fnCalls = 0
    /\ answers = <<>>
    /\ waits = <<>>
    /\ DiffIdle
    /\ HunkIdle
    /\ ValidationIdle
    /\ OpencodeIdle
    /\ StoreIdle
    /\ CommentIdle
    /\ CacheIdle
    /\ ChatIdle

\* fetchWithRetry is called: attempt 0 of its loop
RetryCall ==
    /\ retry.st = "idle"
    /\ CallFn(0)
    /\ UNCHANGED <<retrySignal, nonRetryVars>>

\* fetch resolves with a response and fetchAPI runs to its end
RetryResponds ==
    \E response_ \in Responses :
        /\ retry.st = "fetch"
        /\ LET req == fetched(retry.attempt, response_)
           IN  RetryMoves(req, Answer(response_.status,
                                      IF req.st = "resolved" THEN "none"
                                      ELSE IF response_.json THEN "APIError"
                                      ELSE "SyntaxError"))
        /\ UNCHANGED <<retrySignal, fnCalls, nonRetryVars>>

\* fetch rejects: the network failed
RetryNetworkFails ==
    /\ retry.st = "fetch"
    /\ RetryMoves(caught(retry.attempt, Thrown("TypeError")), Answer(0, "TypeError"))
    /\ UNCHANGED <<retrySignal, fnCalls, nonRetryVars>>

\* controller.abort() of the owner of the signal: a fetch under way is
\* rejected, a sleep goes on
RetryAbort ==
    /\ retrySignal = "live"
    /\ retry.st \in {"idle", "fetch", "sleep"}
    /\ retrySignal' = "aborted"
    /\ IF retry.st = "fetch"
       THEN RetryMoves(caught(retry.attempt, Thrown("AbortError")), Answer(0, "AbortError"))
       ELSE UNCHANGED <<retry, answers, waits>>
    /\ UNCHANGED <<fnCalls, nonRetryVars>>

\* the timer of sleep fires: the next attempt of the loop
RetrySleepOver ==
    /\ retry.st = "sleep"
    /\ CallFn(retry.attempt + 1)
    /\ UNCHANGED <<retrySignal, nonRetryVars>>

RetryNext ==
    \/ RetryCall
    \/ RetryResponds
    \/ RetryNetworkFails
    \/ RetryAbort
    \/ RetrySleepOver

SpecRetry == RetryInit /\ [][RetryNext]_vars

\* every fetch settles and every timer fires
SpecRetryLive == SpecRetry /\ WF_vars(RetryNext)

(***************************************************************************)
(* C21                                                                     *)
(***************************************************************************)
\* C21 (as claimed): a response with a 4xx status, the rate limiter's 429
\* with its plain-text body included, is the last thing the call fetches:
\* fn is not called again, and the call is rejected with an APIError that
\* carries the status of the response.
C21_ClientErrorsNotRetried ==
    \A i \in 1..Len(answers) :
        answers[i].status >= 400 /\ answers[i].status <= 499 =>
            /\ i = Len(answers)
            /\ fnCalls = i
            /\ retry = Request("rejected", i - 1, APIError(answers[i].status))

(***************************************************************************)
(* C22                                                                     *)
(***************************************************************************)
RetryDone == retry.st \in {"resolved", "rejected"}

\* the error answer i of fn was thrown with
ThrownBy(answer) ==
    IF answer.thrown = "APIError" THEN APIError(answer.status) ELSE Thrown(answer.thrown)

\* answer i is a failure the claim says is retried: a 5xx or a network failure
RetriedFailure(answer) ==
    \/ answer.thrown = "APIError" /\ answer.status >= 500
    \/ answer.thrown = "TypeError"

RetryBounded ==
    /\ fnCalls <= 3
    /\ Len(answers) <= fnCalls
    \* the first success is returned, and fn is not called again
    /\ \A i \in 1..Len(answers) :
          answers[i].thrown = "none" =>
              i = Len(answers) /\ fnCalls = i /\ retry.st = "resolved"
    \* an AbortError is rethrown at once
    /\ \A i \in 1..Len(answers) :
          answers[i].thrown = "AbortError" =>
              /\ i = Len(answers) /\ fnCalls = i
              /\ retry = Request("rejected", i - 1, Thrown("AbortError"))
              /\ Len(waits) = i - 1
    \* a 5xx or a network failure of attempt 0 or 1 is followed by a wait
    \* and then by the next call of fn; that of the last attempt by neither
    /\ \A i \in 1..Len(answers) :
          RetriedFailure(answers[i]) =>
              IF i < 3
              THEN /\ Len(waits) >= i
                   /\ \/ retry.st = "sleep" /\ retry.attempt = i - 1 /\ fnCalls = i
                      \/ fnCalls > i
              ELSE /\ Len(waits) = 2
                   /\ retry = Request("rejected", 2, ThrownBy(answers[i]))
    \* the waits are 1000 * 2^k ms after attempt k, k = 0, 1
    /\ Len(waits) <= 2
    /\ \A k \in 1..Len(waits) : waits[k] = 1000 * 2 ^ (k - 1)
    \* the error rethrown is that of the last attempt made
    /\ retry.st = "rejected" =>
          /\ Len(answers) = fnCalls
          /\ retry.info = ThrownBy(answers[Len(answers)])
          /\ retry.attempt = fnCalls - 1

\* C22: fetchWithRetry with maxRetries 3 terminates and calls fn at most 3
\* times; it returns the first success without a further call, rethrows an
\* AbortError at once, retries 5xx and network failures, waits 1000 * 2^k
\* ms after a retryable failure of attempt k (k = 0, 1), does not wait after
\* the last attempt, and then rethrows the error of the last attempt.
C22_TerminatesInThree == []RetryBounded /\ <>RetryDone

C22_Witness ==
    /\ retry.st = "rejected" /\ fnCalls = 3
    /\ waits = <<1000, 2000>>
    /\ answers[1].thrown = "TypeError" /\ answers[3].status = 500

----
(***************************************************************************)
(* The TTL cache (packages/server/src/services/cache.ts).  Cache.store is  *)
(* a function on the keys; a key the Map does not hold is mapped to Null.  *)
(***************************************************************************)
\* advances of the clock in a behaviour
MaxTicks == 3

\* 5 * 60 * 1000 ms
defaultTTL == 300000

CacheKeys == {"pr:1", "pr:1:diff"}

\* what the routes store under a key
CacheValue(endpoint, number) == [kind |-> endpoint, number |-> number]

CacheEntry(value, expiresAt) == [value |-> value, expiresAt |-> expiresAt]

EmptyStore == [k \in CacheKeys |-> Null]

\* ttl || this.defaultTTL
timeToLive_or(ttl) == Or(ttl, JSNumber(defaultTTL)).n

\* ttl ?? this.defaultTTL
timeToLive(ttl) == IF ttl.t \in {"undefined", "null"} THEN defaultTTL ELSE ttl.n

\* Cache.set: the store after it
set(store, key, value, ttl, t) ==
    [store EXCEPT ![key] = CacheEntry(value, t + timeToLive(ttl))]

\* Cache.get: the value returned and the store after it
get(store, key, t) ==
    LET entry == store[key]
    IN  IF entry = Null THEN [value |-> Null, store |-> store]
        ELSE IF t > entry.expiresAt
             THEN [value |-> Null, store |-> [store EXCEPT ![key] = Null]]
        ELSE [value |-> entry.value, store |-> store]

\* the callback of setInterval in startCleanup: the store after it
cleanup(store, t) ==
    [k \in DOMAIN store |->
        IF store[k] # Null /\ t > store[k].expiresAt THEN Null ELSE store[k]]

CacheInit ==
    /\ cacheStore = EmptyStore
    /\ now = 0
    /\ ticks = 0
    /\ lastSet = [k \in CacheKeys |-> Null]
    /\ got = Pending
    /\ requests = <<>>
    /\ DiffIdle
    /\ HunkIdle
    /\ ValidationIdle
    /\ OpencodeIdle
    /\ StoreIdle
    /\ CommentIdle
    /\ RetryIdle
    /\ ChatIdle

SetOn(key) ==
    \E number \in {1, 2}, ttl \in {JSUndefined, JSNumber(0), JSNumber(1)} :
        LET value == CacheValue("pr", number)
        IN  /\ cacheStore' = set(cacheStore, key, value, ttl, now)
            /\ lastSet' = [lastSet EXCEPT ![key] = [value |-> value, at |-> now, ttl |-> ttl]]
            /\ got' = Pending
            /\ UNCHANGED <<now, ticks, requests, nonCacheVars>>

GetOn(key) ==
    /\ cacheStore' = get(cacheStore, key, now).store
    /\ got' = [key |-> key, value |-> get(cacheStore, key, now).value]
    /\ UNCHANGED <<now, ticks, lastSet, requests, nonCacheVars>>

DeleteOn(key) ==
    /\ cacheStore' = [cacheStore EXCEPT ![key] = Null]
    /\ lastSet' = [lastSet EXCEPT ![key] = Null]
    /\ got' = Pending
    /\ UNCHANGED <<now, ticks, requests, nonCacheVars>>

CacheSet == \E key \in CacheKeys : SetOn(key)

CacheGet == \E key \in CacheKeys : GetOn(key)

CacheDelete == \E key \in CacheKeys : DeleteOn(key)

CacheClear ==
    /\ cacheStore' = EmptyStore
    /\ lastSet' = [k \in CacheKeys |-> Null]
    /\ got' = Pending
    /\ UNCHANGED <<now, ticks, requests, nonCacheVars>>

\* time passes: 1 ms, or the default time to live
Advance ==
    \E d \in {1, defaultTTL} :
        /\ ticks < MaxTicks
        /\ ticks' = ticks + 1
        /\ now' = now + d
        /\ got' = Pending
        /\ UNCHANGED <<cacheStore, lastSet, requests, nonCacheVars>>

\* the interval of startCleanup fires
CacheCleanup ==
    /\ cacheStore' = cleanup(cacheStore, now)
    /\ got' = Pending
    /\ UNCHANGED <<now, ticks, lastSet, requests, nonCacheVars>>

CacheNext ==
    \/ CacheSet
    \/ CacheGet
    \/ CacheDelete
    \/ CacheClear
    \/ Advance
    \/ CacheCleanup

SpecCache == CacheInit /\ [][CacheNext]_vars

(***************************************************************************)
(* C26                                                                     *)
(***************************************************************************)
\* the ttl of a set by the claim: 5 minutes when it was omitted
TTLClaimed(ttl) == IF ttl = JSUndefined THEN 5 * 60 * 1000 ELSE ttl.n

\* what get(key) is to return by the claim: the value of the most recent
\* set of the key, if there is one that no delete or clear has followed and
\* the time is not later than its time plus its ttl; null otherwise
ValueExpected(key) ==
    LET last == lastSet[key]
    IN  IF last # Null /\ now <= last.at + TTLClaimed(last.ttl) THEN last.value ELSE Null

CacheAgrees ==
    \* get would return what the claim says, for every key and at every time
    /\ \A key \in CacheKeys : get(cacheStore, key, now).value = ValueExpected(key)
    \* and has returned it; an entry it found expired is gone
    /\ got # Pending =>
          /\ got.value = ValueExpected(got.key)
          /\ got.value = Null => cacheStore[got.key] = Null

CacheStep ==
    \A key \in CacheKeys :
        \* set replaces the value and restarts the expiry
        /\ SetOn(key) =>
              cacheStore'[key] =
                  CacheEntry(lastSet'[key].value, now + TTLClaimed(lastSet'[key].ttl))
        \* an operation on a key leaves what get returns for the others
        /\ SetOn(key) \/ GetOn(key) \/ DeleteOn(key) =>
              \A other \in CacheKeys \ {key} :
                  get(cacheStore', other, now').value = get(cacheStore, other, now).value

\* C26: under any sequence of set, get, delete, clear and advances of the
\* clock, get(k) returns the value of the most recent set(k, v, ttl) if and
\* only if no delete(k) or clear() has followed that set and the time is not
\* later than its time plus ttl (5 minutes when ttl is omitted), and null
\* otherwise; a get on an expired entry removes it; set on an existing key
\* replaces the value and restarts the expiry; operations on a key never
\* change what get returns for another key.
C26_CacheSemantics == []CacheAgrees /\ [][CacheStep]_vars

\* a get has found the entry of "pr:1", set with the default ttl and then
\* set again with ttl 0, expired one ms later, while "pr:1:diff" is still held
C26_Witness ==
    /\ got = [key |-> "pr:1", value |-> Null]
    /\ lastSet["pr:1"] # Null
    /\ lastSet["pr:1"].ttl = JSNumber(0)
    /\ now = lastSet["pr:1"].at + 1
    /\ get(cacheStore, "pr:1:diff", now).value # Null

----
(***************************************************************************)
(* GET /api/prs/:number, /:number/diff and /:number/comments               *)
(* (packages/server/src/routes/prs.ts) over the cache and the GitHub       *)
(* service (services/github.ts).                                           *)
(***************************************************************************)
\* requests in a behaviour
MaxRequests == 2

PrsEndpoints == {"pr", "diff", "comments"}

\* `pr:${prNumber}`, `pr:${prNumber}:diff`, `pr:${prNumber}:comments`
cacheKey(endpoint, prNumber) ==
    "pr:" \o ToString(prNumber) \o (IF endpoint = "pr" THEN "" ELSE ":" \o endpoint)

\* new GitHubServiceError(message, code, statusCode); statusCode 0 stands
\* for undefined
GitHubServiceError(message, code, statusCode) ==
    [message |-> message, code |-> code, statusCode |-> statusCode, github |-> TRUE]

\* what the Octokit calls of the service are rejected with: the status (0
\* when the error has none), whether the rate limit is used up, and whether
\* the message holds ENOTFOUND
OctokitErrors ==
    {[status |-> st, rateLimit |-> FALSE, message |-> "Server Error"] :
        st \in {401, 403, 404, 422, 500}}
    \cup {[status |-> 403, rateLimit |-> TRUE, message |-> "API rate limit exceeded"],
          [status |-> 0, rateLimit |-> FALSE, message |-> "getaddrinfo ENOTFOUND api.github.com"],
          [status |-> 0, rateLimit |-> FALSE, message |-> "socket hang up"]}

handleOctokitError(error) ==
    IF error.status # 0
    THEN CASE error.status = 401 ->
                GitHubServiceError("GitHub authentication failed. Run: gh auth login",
                                   "AUTH_FAILED", 401)
           [] error.status = 403 ->
                IF error.rateLimit
                THEN GitHubServiceError("Rate limit exceeded. Resets at 12:00:00",
                                        "RATE_LIMIT", 403)
                ELSE GitHubServiceError("Access forbidden. Check repository permissions.",
                                        "FORBIDDEN", 403)
           [] error.status = 404 ->
                GitHubServiceError("Pull request or repository not found", "NOT_FOUND", 404)
           [] error.status = 422 ->
                GitHubServiceError("Invalid request parameters", "INVALID_REQUEST", 422)
           [] OTHER ->
                GitHubServiceError("GitHub API error: " \o error.message,
                                   "API_ERROR", error.status)
    ELSE IF error.message = "getaddrinfo ENOTFOUND api.github.com"
    THEN GitHubServiceError("Network error. Check your internet connection.",
                            "NETWORK_ERROR", 0)
    ELSE GitHubServiceError("Unexpected error: " \o error.message, "UNKNOWN", 0)

\* new Error(message), as validatePRNumber throws it
PlainError(message) == [message |-> message, code |-> "", statusCode |-> 0, github |-> FALSE]

\* error.message.includes('Invalid'), for the messages of this part
messageIncludesInvalid(message) ==
    IncludesInvalid(message) \/ message = "Invalid request parameters"

\* the body of an error response; code "" stands for a body without code
ErrorBody(error_, code) == [error |-> error_, code |-> code]

\* the catch block of the three handlers
caughtByRoute(error) ==
    IF messageIncludesInvalid(error.message)
    THEN Response(400, ErrorBody(error.message, ""))
    ELSE IF error.github
    THEN Response(IF error.statusCode # 0 THEN error.statusCode ELSE 500,
                  ErrorBody(error.message, error.code))
    ELSE Response(500, ErrorBody("Failed to fetch", ""))

\* req.params.number of the requests
PrsParams == {JSString(<<"1">>), JSString(<<"0">>), JSString(<<"a", "b", "c">>)}

PrsRequest(endpoint, number, at, thrown, response_, githubCalls, sets) ==
    [endpoint |-> endpoint, number |-> number, pc |-> at, thrown |-> thrown,
     response |-> response_, githubCalls |-> githubCalls, sets |-> sets]

PrsInit ==
    /\ cacheStore = [k \in {cacheKey(e, 1) : e \in PrsEndpoints} |-> Null]
    /\ now = 0
    /\ ticks = 0
    /\ lastSet = <<>>
    /\ got = Pending
    /\ requests = <<>>
    /\ DiffIdle
    /\ HunkIdle
    /\ ValidationIdle
    /\ OpencodeIdle
    /\ StoreIdle
    /\ CommentIdle
    /\ RetryIdle
    /\ ChatIdle

\* a request arrives; its handler runs to the await of the service call, or
\* to its end when the number is refused or the cache holds the answer
PrsReceive ==
    \E endpoint \in PrsEndpoints, number \in PrsParams :
        /\ Len(requests) < MaxRequests
        /\ LET prNumber == validatePRNumber(number)
               cached == get(cacheStore, cacheKey(endpoint, prNumber.value), now)
           IN  IF prNumber.kind = "throw"
               THEN /\ requests' = Append(requests,
                           PrsRequest(endpoint, number, "done", PlainError(prNumber.message),
                                      caughtByRoute(PlainError(prNumber.message)), 0, 0))
                    /\ UNCHANGED cacheStore
               ELSE /\ cacheStore' = cached.store
                    /\ requests' = Append(requests,
                           IF cached.value # Null
                           THEN PrsRequest(endpoint, number, "done", Null,
                                           Response(200, cached.value), 0, 0)
                           ELSE PrsRequest(endpoint, number, "github", Null, Pending, 1, 0))
        /\ UNCHANGED <<now, ticks, lastSet, got, nonCacheVars>>

\* the service call of request i resolves: cache.set, res.json
GitHubReturns ==
    \E i \in 1..Len(requests) :
        /\ requests[i].pc = "github"
        /\ LET prNumber == validatePRNumber(requests[i].number).value
               value == CacheValue(requests[i].endpoint, prNumber)
           IN  /\ cacheStore' = set(cacheStore, cacheKey(requests[i].endpoint, prNumber),
                                    value, JSUndefined, now)
               /\ requests' = [requests EXCEPT ![i].pc = "done",
                                               ![i].response = Response(200, value),
                                               ![i].sets = @ + 1]
        /\ UNCHANGED <<now, ticks, lastSet, got, nonCacheVars>>

\* the service call of request i is rejected: throw handleOctokitError(error)
GitHubThrows ==
    \E i \in 1..Len(requests), error \in OctokitErrors :
        /\ requests[i].pc = "github"
        /\ requests' = [requests EXCEPT ![i].pc = "done",
                                        ![i].thrown = handleOctokitError(error),
                                        ![i].response = caughtByRoute(handleOctokitError(error))]
        /\ UNCHANGED <<cacheStore, now, ticks, lastSet, got, nonCacheVars>>

PrsNext ==
    \/ PrsReceive
    \/ GitHubReturns
    \/ GitHubThrows
    \/ Advance
    \/ CacheCleanup

SpecPrs == PrsInit /\ [][PrsNext]_vars

(***************************************************************************)
(* C23                                                                     *)
(***************************************************************************)
\* C23 (as claimed): a number validatePRNumber refuses is answered with 400,
\* with no call of the GitHub service and no write to the cache; a
\* GitHubServiceError of the service is answered with its statusCode (500
\* when it has none) and its code, whatever the statusCode; any other error
\* with 500; a request that fails stores nothing in the cache.
C23_ErrorStatus ==
    \A i \in 1..Len(requests) :
        LET r == requests[i]
        IN  r.pc = "done" =>
                /\ validatePRNumber(r.number).kind = "throw" =>
                      r.response.status = 400 /\ r.githubCalls = 0 /\ r.sets = 0
                /\ r.thrown # Null /\ r.thrown.github =>
                      /\ r.response.status =
                             (IF r.thrown.statusCode # 0 THEN r.thrown.statusCode ELSE 500)
                      /\ r.response.body.code = r.thrown.code
                /\ r.thrown # Null /\ ~r.thrown.github /\ validatePRNumber(r.number).kind # "throw" =>
                      r.response.status = 500
                /\ r.response.status # 200 => r.sets = 0

----
(***************************************************************************)
(* The chat sessions (packages/server/src/routes/chat.ts).  A handler runs *)
(* from one await to the next as one step.  The await of getSDKClient and  *)
(* the awaits of the SDK calls that follow it in a handler are one wait:   *)
(* the handler does nothing to activeSessions between them.  When the      *)
(* OpenCode server is not running getSDKClient returns null without        *)
(* waiting for anything, and the handler goes on at once.                  *)
(***************************************************************************)
\* requests in a behaviour
MaxChatRequests == 3

\* the ids requests name; the SDK numbers its sessions from 1
SessionIds == {1, 2}

\* a request: its kind, the session id it names (0: none), where its
\* handler is, the status it has answered with (0: none yet), the ids it
\* has listed, and whether a DELETE of its id had answered success before
\* it was received
ChatRequest(kind, id, at, status, late) ==
    [kind |-> kind, id |-> id, pc |-> at, status |-> status, listed |-> {}, late |-> late]

\* the ids whose DELETE has answered success
DeletedIds ==
    {chatRequests[i].id : i \in {j \in 1..Len(chatRequests) :
        chatRequests[j].kind = "delete" /\ chatRequests[j].status = 200}}

Received(req) ==
    /\ Len(chatRequests) < MaxChatRequests
    /\ chatRequests' = Append(chatRequests, req)

Answers(i, status) ==
    chatRequests' = [chatRequests EXCEPT ![i].pc = "done", ![i].status = status]

ChatInit ==
    /\ activeSessions = {}
    /\ messageCount = [id \in SessionIds |-> 0]
    /\ nextSessionId = 1
    /\ chatRequests = <<>>
    /\ DiffIdle
    /\ HunkIdle
    /\ ValidationIdle
    /\ OpencodeIdle
    /\ StoreIdle
    /\ CommentIdle
    /\ RetryIdle
    /\ CacheIdle

\* POST /sessions is received
CreateSession ==
    \E prNumber \in BOOLEAN, context \in BOOLEAN, running \in BOOLEAN :
        /\ Received(IF ~prNumber THEN ChatRequest("create", 0, "done", 400, FALSE)
                    ELSE IF ~running THEN ChatRequest("create", 0, "done", 503, FALSE)
                    ELSE ChatRequest("create", 0,
                                     IF context THEN "create, context" ELSE "create",
                                     0, FALSE))
        /\ UNCHANGED <<activeSessions, messageCount, nextSessionId, nonChatVars>>

\* client.session.create settles
SessionCreated ==
    \E i \in 1..Len(chatRequests), outcome \in {"data", "no data", "throws"} :
        /\ chatRequests[i].pc \in {"create", "create, context"}
        /\ nextSessionId \in SessionIds
        /\ IF outcome # "data"
           THEN /\ Answers(i, 500)
                /\ UNCHANGED <<activeSessions, nextSessionId>>
           ELSE /\ nextSessionId' = nextSessionId + 1
                /\ IF chatRequests[i].pc = "create, context"
                   THEN /\ chatRequests' = [chatRequests EXCEPT ![i].pc = "context",
                                                                ![i].id = nextSessionId]
                        /\ UNCHANGED activeSessions
                   ELSE /\ activeSessions' = activeSessions \cup {nextSessionId}
                        /\ chatRequests' = [chatRequests EXCEPT ![i].pc = "done",
                                                                ![i].id = nextSessionId,
                                                                ![i].status = 200]
        /\ UNCHANGED <<messageCount, nonChatVars>>

\* client.session.prompt with the context settles
ContextSent ==
    \E i \in 1..Len(chatRequests), throws \in BOOLEAN :
        /\ chatRequests[i].pc = "context"
        /\ IF throws
           THEN Answers(i, 500) /\ UNCHANGED activeSessions
           ELSE Answers(i, 200) /\ activeSessions' = activeSessions \cup {chatRequests[i].id}
        /\ UNCHANGED <<messageCount, nextSessionId, nonChatVars>>

\* GET /sessions
ListSessions ==
    /\ Received([ChatRequest("list", 0, "done", 200, FALSE) EXCEPT !.listed = activeSessions])
    /\ UNCHANGED <<activeSessions, messageCount, nextSessionId, nonChatVars>>

\* GET /sessions/:id is received
GetSession ==
    \E id \in SessionIds, running \in BOOLEAN :
        LET late == id \in DeletedIds
        IN  /\ Received(IF id \notin activeSessions THEN ChatRequest("get", id, "done", 404, late)
                        ELSE IF ~running THEN ChatRequest("get", id, "done", 503, late)
                        ELSE ChatRequest("get", id, "messages", 0, late))
            /\ UNCHANGED <<activeSessions, messageCount, nextSessionId, nonChatVars>>

\* client.session.messages of GET /sessions/:id settles
MessagesFetched ==
    \E i \in 1..Len(chatRequests), data \in BOOLEAN :
        /\ chatRequests[i].pc = "messages"
        /\ Answers(i, IF data THEN 200 ELSE 500)
        /\ UNCHANGED <<activeSessions, messageCount, nextSessionId, nonChatVars>>

\* POST /sessions/:id/messages is received: the handler takes the session
\* object from the Map and keeps it
SendMessage ==
    \E id \in SessionIds, message \in BOOLEAN, running \in BOOLEAN :
        LET late == id \in DeletedIds
        IN  /\ Received(IF ~message THEN ChatRequest("message", id, "done", 400, late)
                        ELSE IF id \notin activeSessions
                        THEN ChatRequest("message", id, "done", 404, late)
                        ELSE IF ~running THEN ChatRequest("message", id, "done", 503, late)
                        ELSE ChatRequest("message", id, "prompt", 0, late))
            /\ UNCHANGED <<activeSessions, messageCount, nextSessionId, nonChatVars>>

\* client.session.messages and client.session.prompt of the message handler
\* settle; with an answer the handler counts the message and puts the
\* session object it holds into the Map
PromptAnswered ==
    \E i \in 1..Len(chatRequests), answered \in BOOLEAN :
        /\ chatRequests[i].pc = "prompt"
        /\ Answers(i, 200)
        /\ IF answered
           THEN /\ messageCount' = [messageCount EXCEPT ![chatRequests[i].id] = @ + 1]
                /\ activeSessions' = activeSessions \cup {chatRequests[i].id}
           ELSE UNCHANGED <<activeSessions, messageCount>>
        /\ UNCHANGED <<nextSessionId, nonChatVars>>

\* DELETE /sessions/:id is received
DeleteSession ==
    \E id \in SessionIds, running \in BOOLEAN :
        LET late == id \in DeletedIds
        IN  /\ Received(IF id \notin activeSessions
                        THEN ChatRequest("delete", id, "done", 404, late)
                        ELSE IF ~running THEN ChatRequest("delete", id, "done", 200, late)
                        ELSE ChatRequest("delete", id, "delete", 0, late))
            /\ activeSessions' = IF id \in activeSessions /\ ~running
                                 THEN activeSessions \ {id} ELSE activeSessions
            /\ UNCHANGED <<messageCount, nextSessionId, nonChatVars>>

\* client.session.delete settles
SessionDeleted ==
    \E i \in 1..Len(chatRequests), throws \in BOOLEAN :
        /\ chatRequests[i].pc = "delete"
        /\ IF throws
           THEN Answers(i, 500) /\ UNCHANGED activeSessions
           ELSE Answers(i, 200) /\ activeSessions' = activeSessions \ {chatRequests[i].id}
        /\ UNCHANGED <<messageCount, nextSessionId, nonChatVars>>

ChatNext ==
    \/ CreateSession
    \/ SessionCreated
    \/ ContextSent
    \/ ListSessions
    \/ GetSession
    \/ MessagesFetched
    \/ SendMessage
    \/ PromptAnswered
    \/ DeleteSession
    \/ SessionDeleted

SpecChat == ChatInit /\ [][ChatNext]_vars

(***************************************************************************)
(* C25                                                                     *)
(***************************************************************************)
\* the ids whose creation has succeeded
CreatedIds ==
    {chatRequests[i].id : i \in {j \in 1..Len(chatRequests) :
        chatRequests[j].kind = "create" /\ chatRequests[j].status = 200}}

ChatStoreConsistent ==
    \* an id is in the store only after its creation succeeded
    /\ activeSessions \subseteq CreatedIds
    \* an id whose DELETE answered success is absent, and stays absent
    /\ activeSessions \cap DeletedIds = {}
    \* requests received after that do not list it and answer 404
    /\ \A i \in 1..Len(chatRequests) :
          /\ chatRequests[i].late /\ chatRequests[i].pc = "done" =>
                chatRequests[i].status \in {400, 404}
          /\ \A j \in 1..(i - 1) :
                chatRequests[j].kind = "delete" /\ chatRequests[j].status = 200 =>
                    chatRequests[j].id \notin chatRequests[i].listed \/ chatRequests[i].kind # "list"

\* a DELETE that fails leaves the store as it was
FailedDeleteKeeps ==
    \A i \in 1..Len(chatRequests) :
        /\ chatRequests[i].kind = "delete"
        /\ chatRequests[i].status = 0
        /\ chatRequests'[i].status = 500
        => activeSessions' = activeSessions

\* C25 (as claimed): a session id is in activeSessions only after its
\* creation succeeded; once DELETE /api/chat/sessions/:id has answered
\* success the id is absent from the store and stays absent (GET /sessions
\* does not list it; GET, POST and DELETE on it answer 404), also when a
\* POST /sessions/:id/messages for the id was in flight at the deletion; a
\* DELETE that fails leaves the store unchanged.
C25_SessionStore == []ChatStoreConsistent /\ [][FailedDeleteKeeps]_vars

====
